---- MODULE Spec2Model ----
(***************************************************************************)
(* Model of the deploy-syft-space batch client: the HTTP client wrapper    *)
(* (client.py), the progress tracker and slugify (utils.py) and the        *)
(* command handlers of the commands/ CLI (deploy, delete, publish,         *)
(* update), run one after another by an operator against one remote API    *)
(* instance and one progress file.  Strings are sequences of one-character *)
(* strings so that lower(), substring tests and slugify are computed.      *)
(***************************************************************************)
EXTENDS Integers, Sequences, FiniteSets, TLC

(***************************************************************************)
(* Bounds of the model.                                                    *)
(***************************************************************************)
\* number of dataset directories under source_dir
NumDatasets == 2
\* longest 'failed' list a run may still append to
MaxFailed == 1
\* number of commands the operator starts in a bounded session
MaxRuns == 2
\* longest text slugify is applied to
MaxTextLen == 4

(***************************************************************************)
(* Characters and Python string helpers.                                   *)
(***************************************************************************)
LowerAlpha == <<"a","b","c","d","e","f","g","h","i","j","k","l","m",
                "n","o","p","q","r","s","t","u","v","w","x","y","z">>
UpperAlpha == <<"A","B","C","D","E","F","G","H","I","J","K","L","M",
                "N","O","P","Q","R","S","T","U","V","W","X","Y","Z">>
DigitChars == {"0","1","2","3","4","5","6","7","8","9"}

Range(s) == {s[k] : k \in DOMAIN s}

\* str.lower() on one character
LowerChar(c) ==
    IF \E k \in DOMAIN UpperAlpha : UpperAlpha[k] = c
    THEN LowerAlpha[CHOOSE k \in DOMAIN UpperAlpha : UpperAlpha[k] = c]
    ELSE c

\* str.lower()
Lower(s) == [k \in DOMAIN s |-> LowerChar(s[k])]

\* the Python test  `p in s`  on strings
Contains(s, p) ==
    \E k \in 1..(Len(s) - Len(p) + 1) : SubSeq(s, k, k + Len(p) - 1) = p

IsSpace(c) == c = " "
IsWordChar(c) == c \in Range(LowerAlpha) \cup Range(UpperAlpha) \cup DigitChars \cup {"_"}

\* str.strip(chars): drop the characters of cs from both ends
RECURSIVE LStrip(_, _)
LStrip(s, cs) ==
    IF s # <<>> /\ Head(s) \in cs THEN LStrip(Tail(s), cs) ELSE s
RECURSIVE RStrip(_, _)
RStrip(s, cs) ==
    IF s # <<>> /\ s[Len(s)] \in cs THEN RStrip(SubSeq(s, 1, Len(s) - 1), cs) ELSE s
Strip(s, cs) == RStrip(LStrip(s, cs), cs)

\* re.sub(r"[^\w\s-]", "", s)
RemoveBad(s) == SelectSeq(s, LAMBDA c : IsWordChar(c) \/ IsSpace(c) \/ c = "-")

\* re.sub of every maximal run of characters of cs by one "-"
RECURSIVE RunsToHyphen(_, _)
RunsToHyphen(s, cs) ==
    IF s = <<>> THEN <<>>
    ELSE IF Head(s) \in cs
         THEN <<"-">> \o RunsToHyphen(LStrip(s, cs), cs)
         ELSE <<Head(s)>> \o RunsToHyphen(Tail(s), cs)

\* re.match(r"^[a-z0-9]+(-[a-z0-9]+)*$", s)
IsKebab(s) ==
    /\ s # <<>>
    /\ \A k \in DOMAIN s : s[k] \in Range(LowerAlpha) \cup DigitChars \cup {"-"}
    /\ s[1] # "-"
    /\ s[Len(s)] # "-"
    /\ \A k \in 1..(Len(s) - 1) : ~(s[k] = "-" /\ s[k + 1] = "-")

\* s.rfind("-"): the last index of a hyphen (1-based), 0 when there is none
RFindHyphen(s) ==
    IF \E k \in DOMAIN s : s[k] = "-"
    THEN CHOOSE k \in DOMAIN s : s[k] = "-" /\ \A j \in (k + 1)..Len(s) : s[j] # "-"
    ELSE 0

\* s[:k] with Python's meaning of a negative k
SliceTo(s, k) ==
    IF k >= 0
    THEN SubSeq(s, 1, IF k < Len(s) THEN k ELSE Len(s))
    ELSE SubSeq(s, 1, IF Len(s) + k > 0 THEN Len(s) + k ELSE 0)

\* s.rsplit("-", 1)[0]
RSplitHead(s) ==
    IF RFindHyphen(s) = 0 THEN s ELSE SubSeq(s, 1, RFindHyphen(s) - 1)

\* default of slugify's max_length
DefaultMaxLength == 63

slugify(text, max_length) ==
    LET slug == IF IsKebab(text)
                THEN text
                ELSE Strip(RunsToHyphen(
                             RunsToHyphen(RemoveBad(Strip(Lower(text), {" "})), {" ", "_"}),
                             {"-"}),
                           {"-"})
        last_hyphen == RFindHyphen(slug)
        suffix == IF last_hyphen # 0 THEN SubSeq(slug, last_hyphen, Len(slug)) ELSE <<>>
        trim_to == max_length - Len(suffix)
    IN  IF Len(slug) > max_length
        THEN RSplitHead(SliceTo(slug, trim_to)) \o suffix
        ELSE slug


\* the texts slugify is applied to: every string of at most MaxTextLen of
\* these characters
SlugChars == {"a", "B", "1", " ", "-", "_", "!"}
RECURSIVE TextsUpTo(_)
TextsUpTo(n) ==
    IF n = 0 THEN {<<>>}
    ELSE LET shorter == TextsUpTo(n - 1)
         IN  shorter \cup {Append(t, c) : t \in {s \in shorter : Len(s) = n - 1},
                                           c \in SlugChars}
SlugTexts == TextsUpTo(MaxTextLen)

\* the values of max_length slugify is called with
MaxLengths == {1, 2, 3, DefaultMaxLength}

(***************************************************************************)
(* HTTP responses and the values the client returns.  A response is a      *)
(* record of the status code, the body text and the decoded JSON body; a   *)
(* JSON value is a record of its kind, name and id, None being kind "none".*)
(***************************************************************************)
NoName == <<>>
None == [kind |-> "none", name |-> NoName, id |-> 0, status |-> 0]
DatasetRecord(name, id) == [kind |-> "dataset", name |-> name, id |-> id, status |-> 0]
EndpointRecord(slug) == [kind |-> "endpoint", name |-> slug, id |-> 0, status |-> 0]
\* {"slug": payload["slug"], "exists": True}
ExistsRecord(slug) == [kind |-> "exists", name |-> slug, id |-> 0, status |-> 0]
\* "Dataset exists but couldn't fetch"
CouldntFetch == [kind |-> "couldnt_fetch", name |-> NoName, id |-> 0, status |-> 0]
\* f"{r.status_code}: {r.text[:200]}"
ErrorMessage(r) == [kind |-> "error", name |-> r.text, id |-> 0, status |-> r.status]
\* the fixed messages "Deleted", "Not found", "Updated", "Published"
Message(m) == [kind |-> m, name |-> NoName, id |-> 0, status |-> 0]

Response(status, text, json) == [status |-> status, text |-> text, json |-> json]

NoResponse == Response(0, <<>>, None)
NoCall == [method |-> "none", name |-> NoName, present |-> FALSE,
           resp |-> NoResponse, get |-> NoResponse, ok |-> FALSE, result |-> None]

\* what is remembered of the call before the last one
Brief(c) == [method |-> c.method, name |-> c.name, status |-> c.resp.status, ok |-> c.ok]

\* Python truthiness of an Optional[dict]
Truthy(v) == v.kind # "none"

already_exists == <<"a","l","r","e","a","d","y"," ","e","x","i","s","t","s">>

\* the bodies r.text of the answers the remote gives
TextNone == <<>>
TextServerError == <<"I","n","t","e","r","n","a","l">>
TextExists == <<"D","a","t","a","s","e","t"," ","A","l","r","e","a","d","y"," ",
                "E","x","i","s","t","s">>
TextLowerExists == <<"n","a","m","e"," ">> \o already_exists
Texts == {TextNone, TextServerError, TextExists, TextLowerExists}

\* "already exists" in r.text.lower(), worked out once for each body
mentions_already_exists == [t \in Texts |-> Contains(Lower(t), already_exists)]

\* SyftClient.check_connection; raised is the requests exception case
check_connection(r, raised) == IF raised THEN FALSE ELSE r.status = 200

\* SyftClient.get_dataset
get_dataset(r) == IF r.status = 200 THEN r.json ELSE None

\* create_dataset that recognises an existing dataset by the status 409 only
create_dataset_StatusOnly(r, g) ==
    IF r.status = 201 THEN <<TRUE, r.json>>
    ELSE IF r.status = 409
         THEN LET existing == get_dataset(g)
              IN  IF Truthy(existing) THEN <<TRUE, existing>> ELSE <<FALSE, CouldntFetch>>
         ELSE <<FALSE, ErrorMessage(r)>>

\* SyftClient.create_dataset: r answers the POST, g the GET it may issue
create_dataset(r, g) ==
    IF r.status = 201 THEN <<TRUE, r.json>>
    ELSE IF r.status = 409 \/ mentions_already_exists[r.text]
         THEN LET existing == get_dataset(g)
              IN  IF Truthy(existing) THEN <<TRUE, existing>> ELSE <<FALSE, CouldntFetch>>
         ELSE <<FALSE, ErrorMessage(r)>>

\* whether create_dataset issues its GET
create_dataset_fetches(r) ==
    r.status # 201 /\ (r.status = 409 \/ mentions_already_exists[r.text])

\* delete_dataset that reports a missing dataset as a failure
delete_dataset_NotFoundFails(r) ==
    IF r.status \in {200, 204} THEN <<TRUE, Message("Deleted")>>
    ELSE <<FALSE, ErrorMessage(r)>>

\* SyftClient.delete_dataset
delete_dataset(r) ==
    IF r.status \in {200, 204} THEN <<TRUE, Message("Deleted")>>
    ELSE IF r.status = 404 THEN <<TRUE, Message("Not found")>>
         ELSE <<FALSE, ErrorMessage(r)>>

\* create_endpoint that reports an existing endpoint as a failure
create_endpoint_ConflictFails(r, slug) ==
    IF r.status = 201 THEN <<TRUE, r.json>> ELSE <<FALSE, ErrorMessage(r)>>

\* SyftClient.create_endpoint
create_endpoint(r, slug) ==
    IF r.status = 201 THEN <<TRUE, r.json>>
    ELSE IF r.status = 409 \/ mentions_already_exists[r.text]
         THEN <<TRUE, ExistsRecord(slug)>>
         ELSE <<FALSE, ErrorMessage(r)>>

\* update_endpoint that takes every answer for a success
update_endpoint_AlwaysOk(r) == <<TRUE, Message("Updated")>>

\* SyftClient.update_endpoint
update_endpoint(r) ==
    IF r.status = 200 THEN <<TRUE, Message("Updated")>> ELSE <<FALSE, ErrorMessage(r)>>

\* SyftClient.delete_endpoint
delete_endpoint(r) ==
    IF r.status \in {200, 204} THEN <<TRUE, Message("Deleted")>>
    ELSE IF r.status = 404 THEN <<TRUE, Message("Not found")>>
         ELSE <<FALSE, ErrorMessage(r)>>

\* SyftClient.publish_endpoint
publish_endpoint(r) ==
    IF r.status \in {200, 201} THEN <<TRUE, Message("Published")>> ELSE <<FALSE, ErrorMessage(r)>>


(***************************************************************************)
(* The local catalog and the names derived from it.                        *)
(***************************************************************************)
DirectoryNames == << <<"a">>, <<"b">>, <<"c">>, <<"d">> >>

\* utils.discover_datasets: the sorted sub-directory names of source_dir
discover_datasets == SubSeq(DirectoryNames, 1, NumDatasets)

\* args.name_template ("{name}-ds") and args.slug_template ("{name}-oa")
name_template(name) == name \o <<"-","d","s">>
slug_template(name) == name \o <<"-","o","a">>

\* slugify of the two templates, worked out once for each directory name
AllDatasetNames ==
    [k \in DOMAIN DirectoryNames |->
        slugify(name_template(DirectoryNames[k]), DefaultMaxLength)]
AllEndpointSlugs ==
    [k \in DOMAIN DirectoryNames |->
        slugify(slug_template(DirectoryNames[k]), DefaultMaxLength)]
Position(name) == CHOOSE k \in DOMAIN DirectoryNames : DirectoryNames[k] = name

\* dataset_name and endpoint_slug of cmd_deploy
dataset_name(name) == AllDatasetNames[Position(name)]
endpoint_slug(name) == AllEndpointSlugs[Position(name)]

\* the id the remote gives the dataset of that name
DatasetId(dsname) ==
    CHOOSE k \in DOMAIN DirectoryNames : AllDatasetNames[k] = dsname

\* datasets[: args.limit] when args.limit > 0
Limited(seq, limit) ==
    IF limit > 0 THEN SubSeq(seq, 1, IF limit < Len(seq) THEN limit ELSE Len(seq)) ELSE seq

Contents(seq) == {seq[k] : k \in DOMAIN seq}

(***************************************************************************)
(* State.                                                                  *)
(***************************************************************************)
VARIABLES
    rDatasets,      \* remote: names of the dataset records
    rEndpoints,     \* remote: slugs of the endpoint records
    rPublished,     \* remote: slugs of the endpoints whose 'published' is true
    rPublishedTo,   \* remote: slugs of the endpoints with a non-empty 'published_to'
    rPatched,       \* remote: slugs of the endpoints whose description was updated
    fileExists,     \* the progress file exists
    fileContent,    \* its JSON content
    mdFiles,        \* the dataset directories that hold a journal_description.md
    resolved,       \* the last application of _resolve_description
    slugified,      \* the last application of slugify
    connected,      \* what check_connection answered in this run, "skipped" under --dry-run
    outExists,      \* whether the output JSON of cmd_generate exists
    outContent,     \* its content: dataset name -> description
    gen_descriptions, \* the descriptions dict cmd_generate holds in memory
    description,    \* the description generate_one has just returned
    rNames,         \* remote: slug -> 'name' of the endpoints bulk_deploy.py created
    fixFileExists,  \* fix_endpoint_names_progress.json exists
    fixFileContent, \* its JSON content
    fix_progress,   \* the progress dict of fix_endpoint_names.py
    fixDeleted,     \* history: the slugs whose DELETE by fix_endpoint_names.py succeeded
    fixLost,        \* history: those of them, recorded as failed, that were missing when this run began
    cmd,            \* the command the process runs, "idle" between commands
    pc,             \* the position in the handler
    args,           \* the parsed arguments
    progress,       \* the in-memory progress record
    items,          \* the list the loop iterates over
    idx,            \* the 1-based position in items
    counts,         \* success, skipped, failed, no_desc
    ok,             \* the local ok of the last client call
    dataset_id,     \* the local dataset_id, 0 for None
    rc,             \* the return code, -1 while running
    reqs,           \* history: kinds of the requests issued in this run
    calls,          \* history: <<method, local name>> of the client calls of this run
    loaded,         \* history: the 'deployed' names loaded at the start of this run
    skippedNames,   \* history: the names skipped in this run
    iter,           \* history: outcome of the client calls of this iteration, the id
                    \* create_dataset returned and the dataset_id of the endpoint payload
    faithful,       \* history: the remote answered every request of this run 2xx/404/409
    prior,          \* history: how the run before this one ended
    held,           \* history: the remote held every considered item when the run began
    call,           \* history: the last direct client call
    prevCall,       \* history: the direct client call before it
    runs            \* history: how many commands the operator has started

remote == <<rDatasets, rEndpoints, rPublished, rPublishedTo, rPatched>>
file == <<fileExists, fileContent>>
proc == <<cmd, pc, args, progress, items, idx, counts, ok, dataset_id, rc>>
hist == <<reqs, calls, loaded, skippedNames, iter, faithful, prior, held, call, prevCall, runs>>
\* the state of the parts that the four handlers above do not touch
output == <<outExists, outContent>>
generating == <<gen_descriptions, description>>
fixfile == <<fixFileExists, fixFileContent>>
fixing == <<rNames, fixfile, fix_progress, fixDeleted, fixLost>>
applied == <<resolved, slugified>>
aside == <<applied, connected, output, generating, fixing>>
vars == <<rDatasets, rEndpoints, rPublished, rPublishedTo, rPatched,
          fileExists, fileContent, mdFiles, resolved, slugified, connected, outExists,
          outContent,
          gen_descriptions, description,
          rNames, fixFileExists, fixFileContent, fix_progress, fixDeleted, fixLost,
          cmd, pc, args, progress, items, idx, counts, ok, dataset_id, rc,
          reqs, calls, loaded, skippedNames, iter, faithful, prior, held, call, prevCall, runs>>

EmptyProgress == [deployed |-> <<>>, updated |-> <<>>, failed |-> <<>>]

\* utils.load_progress
load_progress == IF fileExists THEN fileContent ELSE EmptyProgress

NoArgs == [dry_run |-> FALSE, resume |-> FALSE, publish |-> FALSE, limit |-> 0,
           generate_missing |-> FALSE,
           yes |-> FALSE, endpoints |-> FALSE, datasets |-> FALSE, confirm |-> <<>>]
ZeroCounts == [success |-> 0, skipped |-> 0, failed |-> 0, no_desc |-> 0]
NoIter == [ds |-> "none", ep |-> "none", pub |-> "none", id |-> 0, bound |-> 0]
NoPrior == [phase |-> "none", deployed |-> {}]
NoResolution == [applied |-> FALSE]
\* descriptions = {}
NoDescriptions == [n \in {} |-> <<>>]
\* the dict load_progress of fix_endpoint_names.py returns when there is no file
EmptyFixProgress == [fixed |-> <<>>, failed |-> <<>>, skipped |-> <<>>, in_progress |-> <<>>]
NoNames == [s \in {} |-> <<>>]

Init ==
    /\ rDatasets = {} /\ rEndpoints = {} /\ rPublished = {} /\ rPublishedTo = {}
    /\ rPatched = {}
    /\ fileExists = FALSE /\ fileContent = EmptyProgress /\ mdFiles = {}
    /\ cmd = "idle" /\ pc = "idle" /\ args = NoArgs /\ progress = EmptyProgress
    /\ items = <<>> /\ idx = 1 /\ counts = ZeroCounts /\ ok = FALSE
    /\ dataset_id = 0 /\ rc = -1
    /\ reqs = {} /\ calls = {} /\ loaded = {} /\ skippedNames = {} /\ iter = NoIter
    /\ faithful = TRUE /\ prior = NoPrior /\ runs = 0
    /\ held = FALSE /\ call = NoCall /\ prevCall = Brief(NoCall)
    /\ resolved = NoResolution /\ slugified = NoResolution /\ connected = "none"
    /\ outExists = FALSE /\ outContent = NoDescriptions
    /\ gen_descriptions = NoDescriptions /\ description = <<>>
    /\ rNames = NoNames /\ fixFileExists = FALSE /\ fixFileContent = EmptyFixProgress
    /\ fix_progress = EmptyFixProgress /\ fixDeleted = {} /\ fixLost = {}

(***************************************************************************)
(* The remote API: the answers it can give to each request and the state   *)
(* it is in afterwards.  5xx answers leave the state as it was.            *)
(***************************************************************************)
ServerError == Response(500, TextServerError, None)

\* GET /datasets/types/
RemoteCheck == {Response(200, TextNone, None), ServerError}

\* POST /datasets/
RemoteCreateDataset(dsname) ==
    IF dsname \notin rDatasets
    THEN {[resp |-> Response(201, TextNone, DatasetRecord(dsname, DatasetId(dsname))),
           after |-> rDatasets \cup {dsname}],
          [resp |-> ServerError, after |-> rDatasets]}
    ELSE {[resp |-> Response(409, TextNone, None), after |-> rDatasets],
          [resp |-> Response(400, TextExists, None), after |-> rDatasets],
          [resp |-> ServerError, after |-> rDatasets]}

\* GET /datasets/{name}, asked of the remote holding the datasets ds
RemoteGetDataset(dsname, ds) ==
    IF dsname \in ds
    THEN {Response(200, TextNone, DatasetRecord(dsname, DatasetId(dsname))), ServerError}
    ELSE {Response(404, TextNone, None)}

\* DELETE /datasets/{name}
RemoteDeleteDataset(dsname) ==
    IF dsname \in rDatasets
    THEN {[resp |-> Response(200, TextNone, None), after |-> rDatasets \ {dsname}],
          [resp |-> Response(204, TextNone, None), after |-> rDatasets \ {dsname}],
          [resp |-> ServerError, after |-> rDatasets]}
    ELSE {[resp |-> Response(404, TextNone, None), after |-> rDatasets],
          [resp |-> ServerError, after |-> rDatasets]}

\* POST /endpoints/
RemoteCreateEndpoint(slug) ==
    IF slug \notin rEndpoints
    THEN {[resp |-> Response(201, TextNone, EndpointRecord(slug)),
           after |-> rEndpoints \cup {slug}],
          [resp |-> ServerError, after |-> rEndpoints]}
    ELSE {[resp |-> Response(409, TextNone, None), after |-> rEndpoints],
          [resp |-> Response(400, TextExists, None), after |-> rEndpoints],
          [resp |-> ServerError, after |-> rEndpoints]}

\* DELETE /endpoints/{slug}
RemoteDeleteEndpoint(slug) ==
    IF slug \in rEndpoints
    THEN {[resp |-> Response(200, TextNone, None), after |-> rEndpoints \ {slug}],
          [resp |-> Response(204, TextNone, None), after |-> rEndpoints \ {slug}],
          [resp |-> ServerError, after |-> rEndpoints]}
    ELSE {[resp |-> Response(404, TextNone, None), after |-> rEndpoints],
          [resp |-> ServerError, after |-> rEndpoints]}

\* POST /endpoints/{slug}/publish
RemotePublish(slug) ==
    IF slug \in rEndpoints
    THEN {[resp |-> Response(200, TextNone, None), after |-> rPublishedTo \cup {slug}],
          [resp |-> ServerError, after |-> rPublishedTo]}
    ELSE {[resp |-> Response(404, TextNone, None), after |-> rPublishedTo]}

\* PATCH /endpoints/{slug}
RemoteUpdate(slug) ==
    IF slug \in rEndpoints
    THEN {[resp |-> Response(200, TextNone, None), after |-> rPatched \cup {slug}],
          [resp |-> ServerError, after |-> rPatched]}
    ELSE {[resp |-> Response(404, TextNone, None), after |-> rPatched]}

\* the order in which the remote lists the records of a set of names
RECURSIVE Listing(_, _)
Listing(names, set) ==
    IF names = <<>> THEN <<>>
    ELSE (IF Head(names) \in set THEN <<Head(names)>> ELSE <<>>) \o Listing(Tail(names), set)


\* the answer counts as one of a remote that works
Works(r) == r.status < 500


(***************************************************************************)
(* Starting and ending a command.                                          *)
(***************************************************************************)
Limits == {0, 1}

CanStart == pc = "idle"
Running == pc \notin {"idle", "done"}

\* the bookkeeping of a run that starts: how the run before it ended is
\* remembered only by a non-dry-run deploy --resume
StartHistory(c, a) ==
    /\ calls' = {}
    /\ skippedNames' = {}
    /\ iter' = NoIter
    /\ prior' = IF c = "deploy" /\ a.resume /\ ~a.dry_run /\ prior.phase = "killed"
                 THEN [prior EXCEPT !.phase = "rerun"]
                 ELSE IF c = "deploy" /\ a.resume /\ ~a.dry_run /\ prior.phase = "deleted"
                 THEN [prior EXCEPT !.phase = "redeploy"]
                 ELSE NoPrior
    /\ held' = (c = "deploy" /\
                 \A k \in DOMAIN Limited(discover_datasets, a.limit) :
                    /\ dataset_name(discover_datasets[k]) \in rDatasets
                    /\ endpoint_slug(discover_datasets[k]) \in rEndpoints)
    /\ UNCHANGED <<call, prevCall>>
    /\ runs' = IF runs < MaxRuns THEN runs + 1 ELSE runs

\* the process is killed between two steps: its memory is lost, the remote
\* and the progress file stay as they are
Kill ==
    /\ Running
    /\ cmd' = "idle" /\ pc' = "idle" /\ args' = NoArgs /\ progress' = EmptyProgress
    /\ items' = <<>> /\ idx' = 1 /\ counts' = ZeroCounts /\ ok' = FALSE
    /\ dataset_id' = 0 /\ rc' = -1
    /\ reqs' = {} /\ calls' = {} /\ loaded' = {} /\ skippedNames' = {} /\ iter' = NoIter
    /\ faithful' = TRUE
    /\ prior' = IF cmd = "deploy" /\ ~args.dry_run
                 THEN [phase |-> "killed", deployed |-> Contents(load_progress.deployed)]
                 ELSE NoPrior
    /\ held' = FALSE
    /\ gen_descriptions' = NoDescriptions /\ description' = <<>>
    /\ fix_progress' = EmptyFixProgress /\ fixLost' = {}
    /\ connected' = "none"
    /\ UNCHANGED <<remote, file, runs, call, prevCall, mdFiles, resolved, slugified, output,
                   rNames, fixfile, fixDeleted>>

\* the handler has returned and the process exits with the return code
Return ==
    /\ pc = "done"
    /\ cmd' = "idle" /\ pc' = "idle" /\ args' = NoArgs /\ progress' = EmptyProgress
    /\ items' = <<>> /\ idx' = 1 /\ counts' = ZeroCounts /\ ok' = FALSE
    /\ dataset_id' = 0 /\ rc' = -1
    /\ reqs' = {} /\ calls' = {} /\ loaded' = {} /\ skippedNames' = {} /\ iter' = NoIter
    /\ faithful' = TRUE
    /\ prior' = IF cmd = "delete" /\ ~args.dry_run /\ reqs # {} /\ faithful
                 THEN [phase |-> "deleted", deployed |-> {}]
                 ELSE NoPrior
    /\ held' = FALSE
    /\ gen_descriptions' = NoDescriptions /\ description' = <<>>
    /\ fix_progress' = EmptyFixProgress /\ fixLost' = {}
    /\ connected' = "none"
    /\ UNCHANGED <<remote, file, runs, call, prevCall, mdFiles, resolved, slugified, output,
                   rNames, fixfile, fixDeleted>>

\* a change of the in-memory record that is not written to the file
SaveProgress_MemoryOnly(p) ==
    /\ progress' = p
    /\ UNCHANGED <<fileExists, fileContent>>

\* utils.save_progress of the new in-memory record
SaveProgress(p) ==
    /\ progress' = p
    /\ fileExists' = TRUE
    /\ fileContent' = p

(***************************************************************************)
(* cmd_deploy (commands/deploy.py).                                        *)
(***************************************************************************)
DeployArgs ==
    {[NoArgs EXCEPT !.dry_run = d, !.resume = r, !.publish = p, !.limit = l,
                    !.generate_missing = g] :
        d \in BOOLEAN, r \in BOOLEAN, p \in BOOLEAN, l \in Limits, g \in BOOLEAN}

\* the keys of the --descriptions JSON of deploy: every directory but the last
deploy_descriptions == {DirectoryNames[k] : k \in 1..(NumDatasets - 1)}

\* texts of descriptions: the .md content, the JSON entry, the generator's answers
MdTexts == {<<" ","m","d"," ">>, <<"m"," ","d">>, <<" ">>, <<>>}
JsonTexts == {<<"j","s">>, <<" ","j"," ">>, <<>>}
GeneratedTexts == {<<"g","e","n">>, <<" ","g"," ">>, <<>>}
WouldBeGenerated == <<"[","w","o","u","l","d"," ","b","e"," ",
                      "g","e","n","e","r","a","t","e","d","]">>

\* what an application of _resolve_description meets: the .md file, the
\* --descriptions JSON, the flags, the API key, the metadata, the generator
ResolveInputs ==
    [md_exists : BOOLEAN, md_text : MdTexts, in_json : BOOLEAN, json_text : JsonTexts,
     generate_missing : BOOLEAN, dry_run : BOOLEAN, api_key : BOOLEAN,
     metadata : BOOLEAN, generated : GeneratedTexts]

\* what it returns and does: the JSON looked up, the generator called, the .md written
Resolution(value, json, called, wrote) ==
    [value |-> value, read_json |-> json, called |-> called, wrote |-> wrote]

\* _resolve_description that looks the name up in the JSON before the .md file
resolve_description_JsonFirst(i) ==
    IF i.in_json THEN Resolution(i.json_text, TRUE, FALSE, FALSE)
    ELSE IF i.md_exists THEN Resolution(Strip(i.md_text, {" "}), TRUE, FALSE, FALSE)
    ELSE Resolution(<<>>, TRUE, FALSE, FALSE)

\* _resolve_description
resolve_description(i) ==
    IF i.md_exists THEN Resolution(Strip(i.md_text, {" "}), FALSE, FALSE, FALSE)
    ELSE IF i.in_json THEN Resolution(i.json_text, TRUE, FALSE, FALSE)
    ELSE IF i.generate_missing
         THEN IF ~i.api_key THEN Resolution(<<>>, TRUE, FALSE, FALSE)
              ELSE IF ~i.metadata THEN Resolution(<<>>, TRUE, FALSE, FALSE)
              ELSE IF i.dry_run THEN Resolution(WouldBeGenerated, TRUE, FALSE, FALSE)
              ELSE IF i.generated # <<>>
                   THEN Resolution(i.generated, TRUE, TRUE, TRUE)
                   ELSE Resolution(<<>>, TRUE, TRUE, FALSE)
         ELSE Resolution(<<>>, TRUE, FALSE, FALSE)

\* _resolve_description gets as far as its step 3, the generation
ReachesGeneration(name) ==
    /\ name \notin mdFiles
    /\ name \notin deploy_descriptions
    /\ args.generate_missing

\* from the banner to the first iteration: connection check, progress, discovery
DeployBegin(a) ==
    /\ CanStart
    /\ cmd' = "deploy" /\ args' = a
    /\ StartHistory("deploy", a)
    /\ \E ok_ \in {check_connection(r, raised) : r \in RemoteCheck, raised \in BOOLEAN} :
         IF ~a.dry_run /\ ~ok_
         THEN /\ pc' = "done" /\ rc' = 1
              /\ connected' = "failed"
              /\ progress' = EmptyProgress /\ items' = <<>> /\ loaded' = {}
              /\ reqs' = {"check"} /\ faithful' = FALSE
         ELSE /\ pc' = "loop" /\ rc' = -1
              /\ connected' = IF a.dry_run THEN "skipped" ELSE "ok"
              /\ progress' = IF a.resume THEN load_progress ELSE EmptyProgress
              /\ loaded' = IF a.resume THEN Contents(load_progress.deployed) ELSE {}
              /\ items' = Limited(discover_datasets, a.limit)
              /\ reqs' = IF a.dry_run THEN {} ELSE {"check"}
              /\ faithful' = TRUE
    /\ idx' = 1 /\ counts' = ZeroCounts /\ ok' = FALSE /\ dataset_id' = 0
    /\ UNCHANGED <<remote, file, mdFiles, applied, output, generating, fixing>>

InDeployLoop == cmd = "deploy" /\ pc = "loop" /\ idx <= Len(items)

\* the skip test reading the 'failed' list instead of the 'deployed' list
AlreadyDeployed_ReadsFailed == args.resume /\ items[idx] \in Contents(progress.failed)

\* the skip test that also skips the names of the 'failed' list
AlreadyDeployed_OrFailed ==
    args.resume /\ items[idx] \in Contents(progress.deployed) \cup Contents(progress.failed)

\* args.resume and name in progress["deployed"]
AlreadyDeployed == args.resume /\ items[idx] \in Contents(progress.deployed)

\* a skip that leaves the counters as they are
DeploySkip_Uncounted ==
    /\ InDeployLoop /\ AlreadyDeployed
    /\ idx' = idx + 1
    /\ skippedNames' = skippedNames \cup {items[idx]}
    /\ iter' = NoIter
    /\ UNCHANGED <<remote, file, cmd, pc, args, progress, items, counts, ok, dataset_id,
                   rc, reqs, calls, loaded, faithful, prior, held, call, prevCall, runs,
                   mdFiles, aside>>

DeploySkip ==
    /\ InDeployLoop /\ AlreadyDeployed
    /\ counts' = [counts EXCEPT !.skipped = @ + 1]
    /\ idx' = idx + 1
    /\ skippedNames' = skippedNames \cup {items[idx]}
    /\ iter' = NoIter
    /\ UNCHANGED <<remote, file, cmd, pc, args, progress, items, ok, dataset_id, rc,
                   reqs, calls, loaded, faithful, prior, held, call, prevCall, runs, mdFiles, aside>>

\* a dry-run iteration that records the name as deployed
DeployDryIteration_Records ==
    /\ InDeployLoop /\ ~AlreadyDeployed /\ args.dry_run
    /\ SaveProgress([progress EXCEPT !.deployed = Append(@, items[idx])])
    /\ counts' = [counts EXCEPT !.success = @ + 1]
    /\ idx' = idx + 1
    /\ dataset_id' = 0
    /\ iter' = NoIter
    /\ UNCHANGED <<remote, cmd, pc, args, items, ok, rc,
                   reqs, calls, loaded, skippedNames, faithful, prior, held, call,
                   prevCall, runs, mdFiles, aside>>

\* a whole iteration under --dry-run: nothing but prints and success += 1
DeployDryIteration ==
    /\ InDeployLoop /\ ~AlreadyDeployed /\ args.dry_run
    /\ counts' = [counts EXCEPT !.success = @ + 1]
    /\ idx' = idx + 1
    /\ dataset_id' = 0
    /\ iter' = NoIter
    /\ UNCHANGED <<remote, file, cmd, pc, args, progress, items, ok, rc,
                   reqs, calls, loaded, skippedNames, faithful, prior, held, call, prevCall, runs, mdFiles, aside>>

\* a dataset_id that is set once and kept for the later iterations
ResultId_KeepsEarlier(result, earlier) ==
    IF earlier # 0 THEN earlier ELSE result.id

\* dataset_id = None; dataset_id = result.get("id") if isinstance(result, dict)
\* else None: the id of this iteration's record, whatever the variable held
ResultId(result, earlier) ==
    IF result.kind = "dataset" THEN result.id ELSE 0

\* if dataset_id: endpoint_payload["dataset_id"] = dataset_id; 0 when the key
\* is left out
payload_dataset_id(id) == IF id # 0 THEN id ELSE 0

\* an iteration that goes on after a failed create_dataset
AfterCreateDataset_IgnoresFailure(okv) == "create_endpoint"

\* where the iteration goes after create_dataset
AfterCreateDataset(okv) == IF okv THEN "create_endpoint" ELSE "record_failed"

\* an iteration that goes on after a failed create_endpoint
AfterCreateEndpoint_IgnoresFailure(okv) ==
    IF args.publish THEN "publish" ELSE "record_deployed"

\* where the iteration goes after create_endpoint
AfterCreateEndpoint(okv) ==
    IF ~okv THEN "record_failed"
    ELSE IF args.publish THEN "publish" ELSE "record_deployed"

\* _resolve_description when it generates: without API key or metadata it
\* returns "", else it asks for a description and writes it to the .md file
DeployResolveDescription ==
    /\ InDeployLoop /\ ~AlreadyDeployed /\ ~args.dry_run
    /\ ReachesGeneration(items[idx])
    /\ \E i \in ResolveInputs :
         /\ ~i.md_exists /\ ~i.in_json /\ i.generate_missing /\ ~i.dry_run
         /\ i.md_text = <<>> /\ i.json_text = <<>>
         /\ LET r == resolve_description(i)
            IN  /\ mdFiles' = IF r.wrote THEN mdFiles \cup {items[idx]} ELSE mdFiles
                /\ reqs' = IF r.called THEN reqs \cup {"generate"} ELSE reqs
    /\ pc' = "create_dataset"
    /\ UNCHANGED <<remote, file, cmd, args, progress, items, idx, counts, ok, dataset_id,
                   rc, calls, loaded, skippedNames, iter, faithful, prior, held, call,
                   prevCall, runs, aside>>

DeployCreateDataset ==
    /\ \/ /\ InDeployLoop /\ ~AlreadyDeployed /\ ~args.dry_run
          /\ ~ReachesGeneration(items[idx])
       \/ cmd = "deploy" /\ pc = "create_dataset"
    /\ LET name == items[idx]
           dsname == dataset_name(name)
       IN  \E o \in RemoteCreateDataset(dsname) : \E g \in RemoteGetDataset(dsname, o.after) :
             LET res == create_dataset(o.resp, g)
                 fetched == create_dataset_fetches(o.resp)
             IN  /\ ~res[1] => Len(progress.failed) < MaxFailed
                 /\ rDatasets' = o.after
                 /\ ok' = res[1]
                 /\ dataset_id' = IF res[1] THEN ResultId(res[2], dataset_id)
                                  ELSE dataset_id
                 /\ pc' = AfterCreateDataset(res[1])
                 /\ reqs' = reqs \cup {"create"} \cup (IF fetched THEN {"get"} ELSE {})
                 /\ calls' = calls \cup {<<"create_dataset", name>>}
                 /\ iter' = [NoIter EXCEPT !.ds = IF res[1] THEN "ok" ELSE "failed",
                                          !.id = IF res[1] THEN res[2].id ELSE 0]
                 /\ faithful' = (faithful /\ Works(o.resp) /\ (fetched => Works(g)))
    /\ UNCHANGED <<rEndpoints, rPublished, rPublishedTo, rPatched, file, cmd, args,
                   progress, items, idx, counts, rc, loaded, skippedNames, prior, held, call, prevCall, runs, mdFiles, aside>>

\* progress["failed"].append(name); save_progress; failed += 1; continue
DeployRecordFailure ==
    /\ cmd = "deploy" /\ pc = "record_failed"
    /\ SaveProgress([progress EXCEPT !.failed = Append(@, items[idx])])
    /\ counts' = [counts EXCEPT !.failed = @ + 1]
    /\ idx' = idx + 1
    /\ pc' = "loop"
    /\ iter' = NoIter
    /\ UNCHANGED <<remote, cmd, args, items, ok, dataset_id, rc,
                   reqs, calls, loaded, skippedNames, faithful, prior, held, call, prevCall, runs, mdFiles, aside>>

DeployCreateEndpoint ==
    /\ cmd = "deploy" /\ pc = "create_endpoint"
    /\ LET name == items[idx]
           slug == endpoint_slug(name)
       IN  \E o \in RemoteCreateEndpoint(slug) :
             LET res == create_endpoint(o.resp, slug)
             IN  /\ ~res[1] => Len(progress.failed) < MaxFailed
                 /\ rEndpoints' = o.after
                 /\ rPublished' = IF o.resp.status = 201 /\ args.publish
                                  THEN rPublished \cup {slug} ELSE rPublished
                 /\ ok' = res[1]
                 /\ pc' = AfterCreateEndpoint(res[1])
                 /\ calls' = calls \cup {<<"create_endpoint", name>>}
                 /\ iter' = [iter EXCEPT !.ep = IF res[1] THEN "ok" ELSE "failed",
                                         !.bound = payload_dataset_id(dataset_id)]
                 /\ faithful' = (faithful /\ Works(o.resp))
    /\ reqs' = reqs \cup {"create"}
    /\ UNCHANGED <<rDatasets, rPublishedTo, rPatched, file, cmd, args, progress, items,
                   idx, counts, dataset_id, rc, loaded, skippedNames, prior, held, call, prevCall, runs, mdFiles, aside>>

\* pub_ok, pub_msg = client.publish_endpoint(endpoint_slug): only printed
DeployPublish ==
    /\ cmd = "deploy" /\ pc = "publish"
    /\ LET name == items[idx]
           slug == endpoint_slug(name)
       IN  \E o \in RemotePublish(slug) :
             LET res == publish_endpoint(o.resp)
             IN  /\ rPublishedTo' = o.after
                 /\ rPublished' = IF res[1] THEN rPublished \cup {slug} ELSE rPublished
                 /\ calls' = calls \cup {<<"publish_endpoint", name>>}
                 /\ iter' = [iter EXCEPT !.pub = IF res[1] THEN "ok" ELSE "failed"]
                 /\ faithful' = (faithful /\ Works(o.resp))
    /\ pc' = "record_deployed"
    /\ reqs' = reqs \cup {"publish"}
    /\ UNCHANGED <<rDatasets, rEndpoints, rPatched, file, cmd, args, progress, items,
                   idx, counts, ok, dataset_id, rc, loaded, skippedNames, prior, held, call, prevCall, runs, mdFiles, aside>>

\* success += 1; progress["deployed"].append(name); save_progress
DeployRecordSuccess ==
    /\ cmd = "deploy" /\ pc = "record_deployed"
    /\ SaveProgress([progress EXCEPT !.deployed = Append(@, items[idx])])
    /\ counts' = [counts EXCEPT !.success = @ + 1]
    /\ idx' = idx + 1
    /\ pc' = "loop"
    /\ iter' = NoIter
    /\ UNCHANGED <<remote, cmd, args, items, ok, dataset_id, rc,
                   reqs, calls, loaded, skippedNames, faithful, prior, held, call, prevCall, runs, mdFiles, aside>>

\* a summary that returns 0 whatever failed
DeployFinish_ReturnsZero ==
    /\ cmd = "deploy" /\ pc = "loop" /\ idx > Len(items)
    /\ rc' = 0
    /\ pc' = "done"
    /\ UNCHANGED <<remote, file, cmd, args, progress, items, idx, counts, ok, dataset_id,
                   reqs, calls, loaded, skippedNames, iter, faithful, prior, held, call,
                   prevCall, runs, mdFiles, aside>>

\* return 0 if failed == 0 else 1
DeployFinish ==
    /\ cmd = "deploy" /\ pc = "loop" /\ idx > Len(items)
    /\ rc' = IF counts.failed = 0 THEN 0 ELSE 1
    /\ pc' = "done"
    /\ UNCHANGED <<remote, file, cmd, args, progress, items, idx, counts, ok, dataset_id,
                   reqs, calls, loaded, skippedNames, iter, faithful, prior, held, call, prevCall, runs, mdFiles, aside>>

DeployStart == \E a \in DeployArgs : DeployBegin(a)

Deploy ==
    \/ DeploySkip
    \/ DeployDryIteration
    \/ DeployResolveDescription
    \/ DeployCreateDataset
    \/ DeployRecordFailure
    \/ DeployCreateEndpoint
    \/ DeployPublish
    \/ DeployRecordSuccess
    \/ DeployFinish

(***************************************************************************)
(* cmd_delete (commands/delete.py).                                        *)
(***************************************************************************)
yes == <<"y","e","s">>
\* what the operator may type at the confirmation prompt
Confirms == {yes, <<"Y","E","S">>, <<"Y","e","s">>, <<"y">>, <<"n","o">>, <<>>}

\* input() is called, and confirm set, only without --dry-run and --yes
DeleteArgs ==
    {[NoArgs EXCEPT !.dry_run = d, !.yes = y, !.endpoints = e, !.datasets = s,
                    !.confirm = c] :
        d \in BOOLEAN, y \in BOOLEAN, e \in BOOLEAN, s \in BOOLEAN,
        c \in {<<>>}} \cup
    {[NoArgs EXCEPT !.endpoints = e, !.datasets = s, !.confirm = c] :
        e \in BOOLEAN, s \in BOOLEAN, c \in Confirms}

\* delete_endpoints and delete_datasets of cmd_delete
delete_endpoints(a) == a.endpoints \/ (~a.datasets /\ ~a.endpoints)
delete_datasets(a) == a.datasets \/ (~a.datasets /\ ~a.endpoints)

\* a prompt that takes the empty answer for a confirmation
Aborted_EmptyConfirms(a) ==
    ~a.dry_run /\ ~a.yes /\ Lower(a.confirm) # yes /\ a.confirm # <<>>

\* the prompt is shown and the answer is not "yes"
Aborted(a) == ~a.dry_run /\ ~a.yes /\ Lower(a.confirm) # yes

\* where cmd_delete goes when the endpoint phase is over
AfterEndpoints(a) == IF delete_datasets(a) THEN "list_datasets" ELSE "done"

\* a dataset phase that is followed by the endpoint phase
AfterDatasets_BackToEndpoints(a) == IF delete_endpoints(a) THEN "list_endpoints" ELSE "done"

\* where cmd_delete goes when the dataset phase is over: return 0
AfterDatasets(a) == "done"

DeleteBegin(a) ==
    /\ CanStart
    /\ cmd' = "delete" /\ args' = a
    /\ StartHistory("delete", a)
    /\ IF Aborted(a)
       THEN pc' = "done" /\ rc' = 0
       ELSE /\ pc' = IF delete_endpoints(a) THEN "list_endpoints" ELSE "list_datasets"
            /\ rc' = -1
    /\ progress' = EmptyProgress /\ items' = <<>> /\ idx' = 1 /\ counts' = ZeroCounts
    /\ ok' = FALSE /\ dataset_id' = 0
    /\ reqs' = {} /\ loaded' = {} /\ faithful' = TRUE
    /\ UNCHANGED <<remote, file, mdFiles, aside>>

\* endpoints = client.list_endpoints(); a failure is caught and printed
DeleteListEndpoints ==
    /\ cmd = "delete" /\ pc = "list_endpoints"
    /\ \E listed \in BOOLEAN :
         LET l == IF listed THEN Listing(AllEndpointSlugs, rEndpoints) ELSE <<>>
         IN  /\ items' = l
             /\ pc' = IF l = <<>> THEN AfterEndpoints(args) ELSE "delete_endpoints"
             /\ rc' = IF l = <<>> /\ AfterEndpoints(args) = "done" THEN 0 ELSE rc
             /\ faithful' = (faithful /\ listed)
    /\ idx' = 1
    /\ reqs' = reqs \cup {"list"}
    /\ UNCHANGED <<remote, file, cmd, args, progress, counts, ok, dataset_id,
                   calls, loaded, skippedNames, iter, prior, held, call, prevCall, runs, mdFiles, aside>>

DeleteEndpointStep ==
    /\ cmd = "delete" /\ pc = "delete_endpoints"
    /\ LET slug == items[idx]
           last == idx = Len(items)
       IN  /\ IF args.dry_run
              THEN UNCHANGED <<remote, ok, reqs, calls, faithful>>
              ELSE \E o \in RemoteDeleteEndpoint(slug) :
                     /\ rEndpoints' = o.after
                     /\ rPublished' = rPublished \cap o.after
                     /\ rPublishedTo' = rPublishedTo \cap o.after
                     /\ rPatched' = rPatched \cap o.after
                     /\ ok' = delete_endpoint(o.resp)[1]
                     /\ reqs' = reqs \cup {"delete"}
                     /\ calls' = calls \cup {<<"delete_endpoint", slug>>}
                     /\ faithful' = (faithful /\ Works(o.resp))
                     /\ UNCHANGED rDatasets
           /\ idx' = idx + 1
           /\ pc' = IF last THEN AfterEndpoints(args) ELSE pc
           /\ rc' = IF last /\ AfterEndpoints(args) = "done" THEN 0 ELSE rc
    /\ UNCHANGED <<file, cmd, args, progress, items, counts, dataset_id,
                   loaded, skippedNames, iter, prior, held, call, prevCall, runs, mdFiles, aside>>

\* datasets = client.list_datasets(); a failure is caught and printed
DeleteListDatasets ==
    /\ cmd = "delete" /\ pc = "list_datasets"
    /\ \E listed \in BOOLEAN :
         LET l == IF listed THEN Listing(AllDatasetNames, rDatasets) ELSE <<>>
         IN  /\ items' = l
             /\ pc' = IF l = <<>> THEN AfterDatasets(args) ELSE "delete_datasets"
             /\ rc' = IF l = <<>> THEN 0 ELSE rc
             /\ faithful' = (faithful /\ listed)
    /\ idx' = 1
    /\ reqs' = reqs \cup {"list"}
    /\ UNCHANGED <<remote, file, cmd, args, progress, counts, ok, dataset_id,
                   calls, loaded, skippedNames, iter, prior, held, call, prevCall, runs, mdFiles, aside>>

DeleteDatasetStep ==
    /\ cmd = "delete" /\ pc = "delete_datasets"
    /\ LET name == items[idx]
           last == idx = Len(items)
       IN  /\ IF args.dry_run
              THEN UNCHANGED <<remote, ok, reqs, calls, faithful>>
              ELSE \E o \in RemoteDeleteDataset(name) :
                     /\ rDatasets' = o.after
                     /\ ok' = delete_dataset(o.resp)[1]
                     /\ reqs' = reqs \cup {"delete"}
                     /\ calls' = calls \cup {<<"delete_dataset", name>>}
                     /\ faithful' = (faithful /\ Works(o.resp))
                     /\ UNCHANGED <<rEndpoints, rPublished, rPublishedTo, rPatched>>
           /\ idx' = idx + 1
           /\ pc' = IF last THEN AfterDatasets(args) ELSE pc
           /\ rc' = IF last THEN 0 ELSE rc
    /\ UNCHANGED <<file, cmd, args, progress, items, counts, dataset_id,
                   loaded, skippedNames, iter, prior, held, call, prevCall, runs, mdFiles, aside>>

DeleteStart == \E a \in DeleteArgs : DeleteBegin(a)

Delete ==
    \/ DeleteListEndpoints
    \/ DeleteEndpointStep
    \/ DeleteListDatasets
    \/ DeleteDatasetStep

(***************************************************************************)
(* cmd_publish (commands/publish.py).                                      *)
(***************************************************************************)
PublishArgs == {[NoArgs EXCEPT !.dry_run = d, !.limit = l] : d \in BOOLEAN, l \in Limits}

\* _needs_publish of the listed record of the endpoint slug
needs_publish(slug) ==
    IF slug \notin rPublished THEN TRUE
    ELSE IF slug \notin rPublishedTo THEN TRUE
    ELSE FALSE

\* the limit applied to the listing before the filter
Unpublished_LimitFirst(endpoints, limit) ==
    SelectSeq(Limited(endpoints, limit), needs_publish)

\* unpublished = [ep for ep in endpoints if _needs_publish(ep)], then [: limit]
Unpublished(endpoints, limit) ==
    Limited(SelectSeq(endpoints, needs_publish), limit)

\* endpoints = client.list_endpoints(); filter; limit
PublishBegin(a) ==
    /\ CanStart
    /\ cmd' = "publish" /\ args' = a
    /\ StartHistory("publish", a)
    /\ \E listed \in BOOLEAN :
         IF ~listed
         THEN /\ items' = <<>> /\ pc' = "done" /\ rc' = 1 /\ faithful' = FALSE
         ELSE LET endpoints == Listing(AllEndpointSlugs, rEndpoints)
                  unpublished == Unpublished(endpoints, a.limit)
              IN  /\ items' = unpublished
                  /\ pc' = IF unpublished = <<>> THEN "done" ELSE "publish_loop"
                  /\ rc' = IF unpublished = <<>> THEN 0 ELSE -1
                  /\ faithful' = TRUE
    /\ progress' = EmptyProgress /\ idx' = 1 /\ counts' = ZeroCounts
    /\ ok' = FALSE /\ dataset_id' = 0
    /\ reqs' = {"list"} /\ loaded' = {}
    /\ UNCHANGED <<remote, file, mdFiles, aside>>

PublishStep ==
    /\ cmd = "publish" /\ pc = "publish_loop"
    /\ LET slug == items[idx]
           last == idx = Len(items)
       IN  /\ IF args.dry_run
              THEN /\ counts' = [counts EXCEPT !.success = @ + 1]
                   /\ UNCHANGED <<remote, ok, reqs, calls, faithful>>
              ELSE \E o \in RemotePublish(slug) :
                     LET res == publish_endpoint(o.resp)
                     IN  /\ rPublishedTo' = o.after
                         /\ rPublished' = IF res[1] THEN rPublished \cup {slug}
                                          ELSE rPublished
                         /\ ok' = res[1]
                         /\ counts' = IF res[1] THEN [counts EXCEPT !.success = @ + 1]
                                      ELSE [counts EXCEPT !.failed = @ + 1]
                         /\ reqs' = reqs \cup {"publish"}
                         /\ calls' = calls \cup {<<"publish_endpoint", slug>>}
                         /\ faithful' = (faithful /\ Works(o.resp))
                         /\ UNCHANGED <<rDatasets, rEndpoints, rPatched>>
           /\ idx' = idx + 1
           /\ pc' = IF last THEN "done" ELSE pc
           /\ rc' = IF last THEN 0 ELSE rc
    /\ UNCHANGED <<file, cmd, args, progress, items, dataset_id,
                   loaded, skippedNames, iter, prior, held, call, prevCall, runs, mdFiles, aside>>

PublishStart == \E a \in PublishArgs : PublishBegin(a)

Publish == PublishStep

(***************************************************************************)
(* cmd_update (commands/update.py).                                        *)
(***************************************************************************)
UpdateArgs ==
    {[NoArgs EXCEPT !.dry_run = d, !.resume = r, !.limit = l] :
        d \in BOOLEAN, r \in BOOLEAN, l \in Limits}

\* the keys of the --descriptions JSON: every endpoint but the last directory's
descriptions == {endpoint_slug(DirectoryNames[k]) : k \in 1..(NumDatasets - 1)}

\* load descriptions and progress, endpoints = client.list_endpoints(), limit
UpdateBegin(a) ==
    /\ CanStart
    /\ cmd' = "update" /\ args' = a
    /\ StartHistory("update", a)
    /\ progress' = IF a.resume THEN load_progress ELSE EmptyProgress
    /\ \E listed \in BOOLEAN :
         IF ~listed
         THEN /\ items' = <<>> /\ pc' = "done" /\ rc' = 1 /\ faithful' = FALSE
         ELSE LET endpoints == Limited(Listing(AllEndpointSlugs, rEndpoints), a.limit)
              IN  /\ items' = endpoints
                  /\ pc' = IF endpoints = <<>> THEN "done" ELSE "update_loop"
                  /\ rc' = IF endpoints = <<>> THEN 0 ELSE -1
                  /\ faithful' = TRUE
    /\ idx' = 1 /\ counts' = ZeroCounts /\ ok' = FALSE /\ dataset_id' = 0
    /\ reqs' = {"list"} /\ loaded' = {}
    /\ UNCHANGED <<remote, file, mdFiles, aside>>

\* one iteration of the loop of cmd_update
UpdateStep ==
    /\ cmd = "update" /\ pc = "update_loop"
    /\ LET slug == items[idx]
           last == idx = Len(items)
       IN  /\ IF args.resume /\ slug \in Contents(progress.updated)
              THEN /\ counts' = [counts EXCEPT !.skipped = @ + 1]
                   /\ skippedNames' = skippedNames \cup {slug}
                   /\ UNCHANGED <<remote, file, progress, ok, reqs, calls, faithful>>
              ELSE IF slug \notin descriptions
              THEN /\ counts' = [counts EXCEPT !.no_desc = @ + 1]
                   /\ UNCHANGED <<remote, file, progress, ok, reqs, calls, faithful,
                                  skippedNames>>
              ELSE IF args.dry_run
              THEN /\ counts' = [counts EXCEPT !.success = @ + 1]
                   /\ UNCHANGED <<remote, file, progress, ok, reqs, calls, faithful,
                                  skippedNames>>
              ELSE \E o \in RemoteUpdate(slug) :
                     LET res == update_endpoint(o.resp)
                     IN  /\ rPatched' = o.after
                         /\ ok' = res[1]
                         /\ IF res[1]
                            THEN /\ SaveProgress([progress EXCEPT
                                                    !.updated = Append(@, slug)])
                                 /\ counts' = [counts EXCEPT !.success = @ + 1]
                            ELSE /\ counts' = [counts EXCEPT !.failed = @ + 1]
                                 /\ UNCHANGED <<file, progress>>
                         /\ reqs' = reqs \cup {"update"}
                         /\ calls' = calls \cup {<<"update_endpoint", slug>>}
                         /\ faithful' = (faithful /\ Works(o.resp))
                         /\ UNCHANGED <<rDatasets, rEndpoints, rPublished, rPublishedTo,
                                        skippedNames>>
           /\ idx' = idx + 1
           /\ pc' = IF last THEN "done" ELSE pc
           /\ rc' = IF last THEN 0 ELSE rc
    /\ UNCHANGED <<cmd, args, items, dataset_id, loaded, iter, prior, held, call, prevCall, runs, mdFiles, aside>>

UpdateStart == \E a \in UpdateArgs : UpdateBegin(a)

Update == UpdateStep

(***************************************************************************)
(* The client methods called one at a time against a remote that may also  *)
(* refuse a request (403, 422) or name the conflict only in the body.      *)
(***************************************************************************)
Refusals == {Response(403, TextNone, None), Response(422, TextServerError, None)}

CreateDatasetAnswers(dsname) ==
    RemoteCreateDataset(dsname) \cup
    {[resp |-> r, after |-> rDatasets] : r \in Refusals} \cup
    (IF dsname \in rDatasets
     THEN {[resp |-> Response(422, TextLowerExists, None), after |-> rDatasets]}
     ELSE {})

CreateEndpointAnswers(slug) ==
    RemoteCreateEndpoint(slug) \cup
    {[resp |-> r, after |-> rEndpoints] : r \in Refusals} \cup
    (IF slug \in rEndpoints
     THEN {[resp |-> Response(422, TextLowerExists, None), after |-> rEndpoints]}
     ELSE {})

DeleteDatasetAnswers(dsname) ==
    RemoteDeleteDataset(dsname) \cup {[resp |-> r, after |-> rDatasets] : r \in Refusals}

DeleteEndpointAnswers(slug) ==
    RemoteDeleteEndpoint(slug) \cup {[resp |-> r, after |-> rEndpoints] : r \in Refusals}

\* the dataset and the endpoint the calls are about
ClientDataset == dataset_name(DirectoryNames[1])
ClientEndpoint == endpoint_slug(DirectoryNames[1])

ClientCreateDataset(dsname) ==
    /\ \E o \in CreateDatasetAnswers(dsname) : \E g \in RemoteGetDataset(dsname, o.after) :
         LET res == create_dataset(o.resp, g)
         IN  /\ rDatasets' = o.after
             /\ call' = [method |-> "create_dataset", name |-> dsname,
                         present |-> dsname \in rDatasets, resp |-> o.resp,
                         get |-> IF create_dataset_fetches(o.resp) THEN g ELSE NoResponse,
                         ok |-> res[1], result |-> res[2]]
    /\ prevCall' = Brief(call)
    /\ UNCHANGED <<rEndpoints, rPublished, rPublishedTo, rPatched, file, proc,
                   reqs, calls, loaded, skippedNames, iter, faithful, prior, held, runs, mdFiles, aside>>

ClientDeleteDataset(dsname) ==
    /\ \E o \in DeleteDatasetAnswers(dsname) :
         LET res == delete_dataset(o.resp)
         IN  /\ rDatasets' = o.after
             /\ call' = [method |-> "delete_dataset", name |-> dsname,
                         present |-> dsname \in rDatasets, resp |-> o.resp,
                         get |-> NoResponse, ok |-> res[1], result |-> res[2]]
    /\ prevCall' = Brief(call)
    /\ UNCHANGED <<rEndpoints, rPublished, rPublishedTo, rPatched, file, proc,
                   reqs, calls, loaded, skippedNames, iter, faithful, prior, held, runs, mdFiles, aside>>

ClientCreateEndpoint(slug) ==
    /\ \E o \in CreateEndpointAnswers(slug) :
         LET res == create_endpoint(o.resp, slug)
         IN  /\ rEndpoints' = o.after
             /\ call' = [method |-> "create_endpoint", name |-> slug,
                         present |-> slug \in rEndpoints, resp |-> o.resp,
                         get |-> NoResponse, ok |-> res[1], result |-> res[2]]
    /\ prevCall' = Brief(call)
    /\ UNCHANGED <<rDatasets, rPublished, rPublishedTo, rPatched, file, proc,
                   reqs, calls, loaded, skippedNames, iter, faithful, prior, held, runs, mdFiles, aside>>

ClientDeleteEndpoint(slug) ==
    /\ \E o \in DeleteEndpointAnswers(slug) :
         LET res == delete_endpoint(o.resp)
         IN  /\ rEndpoints' = o.after
             /\ call' = [method |-> "delete_endpoint", name |-> slug,
                         present |-> slug \in rEndpoints, resp |-> o.resp,
                         get |-> NoResponse, ok |-> res[1], result |-> res[2]]
    /\ prevCall' = Brief(call)
    /\ UNCHANGED <<rDatasets, rPublished, rPublishedTo, rPatched, file, proc,
                   reqs, calls, loaded, skippedNames, iter, faithful, prior, held, runs, mdFiles, aside>>

(***************************************************************************)
(* cmd_generate (commands/generate.py).                                    *)
(***************************************************************************)
GenerateArgs ==
    {[NoArgs EXCEPT !.dry_run = d, !.resume = r, !.limit = l] :
        d \in BOOLEAN, r \in BOOLEAN, l \in Limits}

\* descriptions[name] = description
WithDescription(d, name, text) ==
    [n \in DOMAIN d \cup {name} |-> IF n = name THEN text ELSE d[n]]

\* from the banner to the first iteration: API key, output file, discovery
GenerateBegin(a) ==
    /\ CanStart
    /\ cmd' = "generate" /\ args' = a
    /\ StartHistory("generate", a)
    /\ \E api_key \in BOOLEAN :
         IF ~a.dry_run /\ ~api_key
         THEN /\ pc' = "done" /\ rc' = 1
              /\ gen_descriptions' = NoDescriptions /\ items' = <<>>
              /\ loaded' = NoDescriptions
         ELSE /\ pc' = "generate_loop" /\ rc' = -1
              /\ gen_descriptions' = IF a.resume /\ outExists THEN outContent
                                     ELSE NoDescriptions
              /\ loaded' = IF a.resume /\ outExists THEN outContent ELSE NoDescriptions
              /\ items' = Limited(discover_datasets, a.limit)
    /\ progress' = EmptyProgress /\ idx' = 1 /\ counts' = ZeroCounts
    /\ ok' = FALSE /\ dataset_id' = 0 /\ description' = <<>>
    /\ reqs' = {} /\ faithful' = TRUE
    /\ UNCHANGED <<remote, file, mdFiles, resolved, slugified, connected, output, fixing>>

InGenerateLoop == cmd = "generate" /\ pc = "generate_loop" /\ idx <= Len(items)

\* a skip test that never skips
AlreadyGenerated_Never == FALSE

\* args.resume and name in descriptions
AlreadyGenerated == args.resume /\ items[idx] \in DOMAIN gen_descriptions

GenerateSkip ==
    /\ InGenerateLoop /\ AlreadyGenerated
    /\ counts' = [counts EXCEPT !.skipped = @ + 1]
    /\ skippedNames' = skippedNames \cup {items[idx]}
    /\ idx' = idx + 1
    /\ UNCHANGED <<remote, file, cmd, pc, args, progress, items, ok, dataset_id, rc,
                   reqs, calls, loaded, iter, faithful, prior, held, call, prevCall,
                   runs, mdFiles, aside>>

\* load_metadata finds nothing (failed += 1), or --dry-run (success += 1)
GenerateWithoutCall ==
    /\ InGenerateLoop /\ ~AlreadyGenerated
    /\ \E metadata \in BOOLEAN :
         /\ metadata => args.dry_run
         /\ counts' = IF metadata THEN [counts EXCEPT !.success = @ + 1]
                      ELSE [counts EXCEPT !.failed = @ + 1]
    /\ idx' = idx + 1
    /\ UNCHANGED <<remote, file, cmd, pc, args, progress, items, ok, dataset_id, rc,
                   reqs, calls, loaded, skippedNames, iter, faithful, prior, held, call,
                   prevCall, runs, mdFiles, aside>>

\* description = generate_one(...): the text, or None on an error
GenerateCall ==
    /\ InGenerateLoop /\ ~AlreadyGenerated /\ ~args.dry_run
    /\ \E text \in GeneratedTexts :
         /\ description' = text
         /\ calls' = calls \cup {<<"generate_one", items[idx], text>>}
         /\ faithful' = (faithful /\ text # <<>>)
    /\ reqs' = reqs \cup {"generate"}
    /\ pc' = "generated"
    /\ UNCHANGED <<remote, file, cmd, args, progress, items, idx, counts, ok, dataset_id,
                   rc, loaded, skippedNames, iter, prior, held, call, prevCall,
                   runs, mdFiles, resolved, slugified, connected, output, gen_descriptions, fixing>>

\* if description: store it, dump the dict, write the .md file; else failed += 1
GenerateRecord ==
    /\ cmd = "generate" /\ pc = "generated"
    /\ IF description # <<>>
       THEN /\ gen_descriptions' = WithDescription(gen_descriptions, items[idx], description)
            /\ outExists' = TRUE
            /\ outContent' = gen_descriptions'
            /\ mdFiles' = mdFiles \cup {items[idx]}
            /\ counts' = [counts EXCEPT !.success = @ + 1]
       ELSE /\ counts' = [counts EXCEPT !.failed = @ + 1]
            /\ UNCHANGED <<gen_descriptions, output, mdFiles>>
    /\ description' = <<>>
    /\ idx' = idx + 1
    /\ pc' = "generate_loop"
    /\ UNCHANGED <<remote, file, cmd, args, progress, items, ok, dataset_id, rc,
                   reqs, calls, loaded, skippedNames, iter, faithful, prior, held, call,
                   prevCall, runs, resolved, slugified, connected, fixing>>

\* return 0 if failed == 0 else 1
GenerateFinish ==
    /\ cmd = "generate" /\ pc = "generate_loop" /\ idx > Len(items)
    /\ rc' = IF counts.failed = 0 THEN 0 ELSE 1
    /\ pc' = "done"
    /\ UNCHANGED <<remote, file, cmd, args, progress, items, idx, counts, ok, dataset_id,
                   reqs, calls, loaded, skippedNames, iter, faithful, prior, held, call,
                   prevCall, runs, mdFiles, aside>>

GenerateStart == \E a \in GenerateArgs : GenerateBegin(a)

Generate ==
    \/ GenerateSkip
    \/ GenerateWithoutCall
    \/ GenerateCall
    \/ GenerateRecord
    \/ GenerateFinish

(***************************************************************************)
(* fix_endpoint_names.py: the repair script that deletes every endpoint    *)
(* whose name holds a space and recreates it under its slug, run after     *)
(* bulk_deploy.py has created such endpoints.                              *)
(***************************************************************************)
\* the journal directories bulk_deploy.py deployed
JournalNames == << <<"a","-","j">>, <<"b","-","j">> >>

UpperChar(c) ==
    IF \E k \in DOMAIN LowerAlpha : LowerAlpha[k] = c
    THEN UpperAlpha[CHOOSE k \in DOMAIN LowerAlpha : LowerAlpha[k] = c]
    ELSE c
IsLetter(c) == c \in Range(LowerAlpha) \cup Range(UpperAlpha)

\* str.title(): a letter after a non-letter in upper case, the others in lower case
Title(s) ==
    [k \in DOMAIN s |-> IF k = 1 \/ ~IsLetter(s[k - 1]) THEN UpperChar(s[k])
                        ELSE LowerChar(s[k])]
\* str.replace(old, new) of one character
Replace(s, old, new) == [k \in DOMAIN s |-> IF s[k] = old THEN new ELSE s[k]]

\* endpoint_slug and endpoint_name of bulk_deploy.create_endpoint
bulk_endpoint_slug(journal_name) == journal_name \o <<"-","o","a">>
bulk_endpoint_name(journal_name) == Title(Replace(journal_name, "-", " "))
JournalSlugs == [k \in DOMAIN JournalNames |-> bulk_endpoint_slug(JournalNames[k])]

\* generate_proper_name: the slug itself
generate_proper_name(slug) == slug

\* the remote's record of 'name' after an endpoint is created or deleted
WithName(slug, name) ==
    [s \in DOMAIN rNames \cup {slug} |-> IF s = slug THEN name ELSE rNames[s]]
WithoutName(slug) == [s \in DOMAIN rNames \ {slug} |-> rNames[s]]

\* bulk_deploy.create_endpoint: POST /endpoints/ with the title-cased name, published
BulkCreateEndpoint(journal_name) ==
    /\ CanStart /\ runs = 0
    /\ LET slug == bulk_endpoint_slug(journal_name)
       IN  \E o \in RemoteCreateEndpoint(slug) :
             /\ rEndpoints' = o.after
             /\ rNames' = IF o.resp.status = 201
                          THEN WithName(slug, bulk_endpoint_name(journal_name))
                          ELSE rNames
             /\ rPublished' = IF o.resp.status = 201 THEN rPublished \cup {slug}
                              ELSE rPublished
    /\ UNCHANGED <<rDatasets, rPublishedTo, rPatched, file, proc, hist, mdFiles,
                   resolved, slugified, connected, output, generating, fixfile, fix_progress, fixDeleted,
                   fixLost>>

\* GET /endpoints/ as fetch_endpoints_with_spaces reads it: the records with
\* a space in 'name', or [] when the request fails
fetch_endpoints_with_spaces(r) ==
    IF r.status = 200
    THEN Listing(JournalSlugs, {s \in DOMAIN rNames : " " \in Range(rNames[s])})
    ELSE <<>>

\* the endpoint dict the script keeps of a listed record
EndpointData(slug) == [slug |-> slug, published |-> slug \in rPublished]

\* utils-like load_progress of the script
fix_load_progress == IF fixFileExists THEN fixFileContent ELSE EmptyFixProgress

\* save_progress of the script
FixSaveProgress(p) ==
    /\ fix_progress' = p
    /\ fixFileExists' = TRUE
    /\ fixFileContent' = p

\* main up to the loop: check_api, load_progress, fetch, filter out the fixed
FixBegin ==
    /\ CanStart /\ runs < MaxRuns
    /\ cmd' = "fix" /\ args' = NoArgs
    /\ StartHistory("fix", NoArgs)
    /\ \E c \in RemoteCheck, l \in {Response(200, TextNone, None), ServerError} :
         IF c.status # 200
         THEN /\ pc' = "done" /\ items' = <<>> /\ fix_progress' = EmptyFixProgress
              /\ reqs' = {"check"} /\ faithful' = FALSE
         ELSE LET p == fix_load_progress
                  endpoints == fetch_endpoints_with_spaces(l)
                  endpoints_to_fix ==
                      SelectSeq(endpoints, LAMBDA s : s \notin Contents(p.fixed))
              IN  /\ fix_progress' = p
                  /\ items' = [k \in DOMAIN endpoints_to_fix |->
                                  EndpointData(endpoints_to_fix[k])]
                  /\ pc' = IF endpoints_to_fix = <<>> THEN "done" ELSE "fix_loop"
                  /\ reqs' = {"check", "list_endpoints"}
                  /\ faithful' = Works(l)
    /\ fixLost' = {s \in fixDeleted : /\ s \notin rEndpoints
                                      /\ s \in Contents(fix_load_progress.failed)}
    /\ rc' = -1
    /\ progress' = EmptyProgress /\ idx' = 1 /\ counts' = ZeroCounts
    /\ ok' = FALSE /\ dataset_id' = 0 /\ loaded' = {}
    /\ UNCHANGED <<remote, file, mdFiles, resolved, slugified, connected, output, generating, rNames,
                   fixfile, fixDeleted>>

InFixLoop == cmd = "fix" /\ pc = "fix_loop" /\ idx <= Len(items)

\* progress["in_progress"] = slug; save_progress(progress)
FixMark ==
    /\ InFixLoop
    /\ FixSaveProgress([fix_progress EXCEPT !.in_progress = items[idx].slug])
    /\ pc' = "fix_delete"
    /\ UNCHANGED <<remote, file, cmd, args, progress, items, idx, counts, ok, dataset_id,
                   rc, hist, mdFiles, resolved, slugified, connected, output, generating, rNames, fixDeleted,
                   fixLost>>

\* delete_endpoint of the script: True only on 200 and 204
fix_delete_endpoint(r) == r.status \in {200, 204}

\* create_endpoint of the script: True only on 201
fix_create_endpoint(r) == r.status = 201

\* the next step of fix_endpoint after a recreate that answered r
AfterRecreate(r, published) ==
    IF fix_create_endpoint(r) /\ published THEN "fix_publish" ELSE "fix_record"

\* fix_endpoint, step 1: already fixed, or DELETE /endpoints/{slug}
FixDelete ==
    /\ cmd = "fix" /\ pc = "fix_delete"
    /\ LET slug == items[idx].slug
       IN  IF slug \in Contents(fix_progress.fixed)
           THEN /\ ok' = TRUE /\ pc' = "fix_record"
                /\ UNCHANGED <<remote, rNames, fixDeleted, reqs, faithful>>
           ELSE \E o \in RemoteDeleteEndpoint(slug) :
                  /\ rEndpoints' = o.after
                  /\ rPublished' = rPublished \cap o.after
                  /\ rPublishedTo' = rPublishedTo \cap o.after
                  /\ rPatched' = rPatched \cap o.after
                  /\ rNames' = IF slug \in o.after THEN rNames ELSE WithoutName(slug)
                  /\ ok' = fix_delete_endpoint(o.resp)
                  /\ fixDeleted' = IF fix_delete_endpoint(o.resp)
                                   THEN fixDeleted \cup {slug} ELSE fixDeleted
                  /\ pc' = IF fix_delete_endpoint(o.resp) THEN "fix_create"
                           ELSE "fix_record"
                  /\ reqs' = reqs \cup {"delete_endpoint"}
                  /\ faithful' = (faithful /\ Works(o.resp))
                  /\ UNCHANGED rDatasets
    /\ UNCHANGED <<file, cmd, args, progress, items, idx, counts, dataset_id, rc,
                   calls, loaded, skippedNames, iter, prior, held, call, prevCall, runs,
                   mdFiles, resolved, slugified, connected, output, generating, fixfile, fix_progress, fixLost>>

\* fix_endpoint, step 3: POST /endpoints/ with the proper name
FixCreate ==
    /\ cmd = "fix" /\ pc = "fix_create"
    /\ LET slug == items[idx].slug
       IN  \E o \in RemoteCreateEndpoint(slug) :
             /\ rEndpoints' = o.after
             /\ rNames' = IF o.resp.status = 201
                          THEN WithName(slug, generate_proper_name(slug))
                          ELSE rNames
             /\ ok' = fix_create_endpoint(o.resp)
             /\ pc' = AfterRecreate(o.resp, items[idx].published)
             /\ faithful' = (faithful /\ Works(o.resp))
    /\ reqs' = reqs \cup {"create_endpoint"}
    /\ UNCHANGED <<rDatasets, rPublished, rPublishedTo, rPatched, file, cmd, args,
                   progress, items, idx, counts, dataset_id, rc,
                   calls, loaded, skippedNames, iter, prior, held, call, prevCall, runs,
                   mdFiles, resolved, slugified, connected, output, generating, fixfile, fix_progress,
                   fixDeleted, fixLost>>

\* create_endpoint of the script, when the original was published:
\* POST /endpoints/{slug}/publish, whose failure is only reported
FixPublish ==
    /\ cmd = "fix" /\ pc = "fix_publish"
    /\ LET slug == items[idx].slug
       IN  \E o \in RemotePublish(slug) :
             /\ rPublishedTo' = o.after
             /\ rPublished' = IF o.resp.status = 200 THEN rPublished \cup {slug}
                              ELSE rPublished
             /\ faithful' = (faithful /\ Works(o.resp))
    /\ reqs' = reqs \cup {"publish_endpoint"}
    /\ pc' = "fix_record"
    /\ UNCHANGED <<rDatasets, rEndpoints, rPatched, file, cmd, args,
                   progress, items, idx, counts, ok, dataset_id, rc,
                   calls, loaded, skippedNames, iter, prior, held, call, prevCall, runs,
                   mdFiles, resolved, slugified, connected, output, generating, rNames, fixfile, fix_progress,
                   fixDeleted, fixLost>>

\* progress["fixed"] or progress["failed"] gets the slug; in_progress = None; save
FixRecord ==
    /\ cmd = "fix" /\ pc = "fix_record"
    /\ LET slug == items[idx].slug
           p == IF ok THEN [fix_progress EXCEPT !.fixed = Append(@, slug)]
                ELSE [fix_progress EXCEPT !.failed = Append(@, slug)]
       IN  FixSaveProgress([p EXCEPT !.in_progress = <<>>])
    /\ idx' = idx + 1
    /\ pc' = "fix_loop"
    /\ UNCHANGED <<remote, file, cmd, args, progress, items, counts, ok, dataset_id,
                   rc, hist, mdFiles, resolved, slugified, connected, output, generating, rNames, fixDeleted,
                   fixLost>>

\* the summary; main returns
FixFinish ==
    /\ cmd = "fix" /\ pc = "fix_loop" /\ idx > Len(items)
    /\ pc' = "done"
    /\ UNCHANGED <<remote, file, cmd, args, progress, items, idx, counts, ok, dataset_id,
                   rc, hist, mdFiles, aside>>

BulkDeploy == \E k \in DOMAIN JournalNames : BulkCreateEndpoint(JournalNames[k])

FixNames ==
    \/ FixMark
    \/ FixDelete
    \/ FixCreate
    \/ FixPublish
    \/ FixRecord
    \/ FixFinish

(***************************************************************************)
(* Specifications.                                                         *)
(***************************************************************************)
\* the client methods on their own
NextClient ==
    \/ ClientCreateDataset(ClientDataset)
    \/ ClientDeleteDataset(ClientDataset)
    \/ ClientCreateEndpoint(ClientEndpoint)
    \/ ClientDeleteEndpoint(ClientEndpoint)
SpecClient == Init /\ [][NextClient]_vars

\* _resolve_description on its own, applied to any inputs
ResolveDescription ==
    /\ \E i \in ResolveInputs :
         resolved' = [applied |-> TRUE, in |-> i, out |-> resolve_description(i)]
    /\ UNCHANGED <<remote, file, proc, hist, mdFiles, slugified, connected, output,
                   generating, fixing>>
NextResolve == ResolveDescription
SpecResolve == Init /\ [][NextResolve]_vars

\* slugify on its own, applied once to any text and any max_length
Slugify ==
    /\ ~slugified.applied
    /\ \E text \in SlugTexts, max_length \in MaxLengths :
         slugified' = [applied |-> TRUE, text |-> text, max_length |-> max_length,
                       slug |-> slugify(text, max_length)]
    /\ UNCHANGED <<remote, file, proc, hist, mdFiles, resolved, connected, output,
                   generating, fixing>>
NextSlugify == Slugify
SpecSlugify == Init /\ [][NextSlugify]_vars

\* generate runs only, each of which may be killed between two steps
NextGenerate == GenerateStart \/ Generate \/ Kill \/ Return
SpecGenerate == Init /\ [][NextGenerate]_vars

\* bulk_deploy.py first, then runs of fix_endpoint_names.py, each of which may
\* be killed between two steps
NextFixNames == BulkDeploy \/ FixBegin \/ FixNames \/ Kill \/ Return
SpecFixNames == Init /\ [][NextFixNames]_vars

\* deploy runs only, each of which may be killed between two steps
NextDeploy == DeployStart \/ Deploy \/ Kill \/ Return
SpecDeploy == Init /\ [][NextDeploy]_vars

\* a session of at most MaxRuns commands, each a deploy, an update or a generate
\* that runs to its end
NextBatch ==
    \/ runs < MaxRuns /\ DeployStart
    \/ runs < MaxRuns /\ UpdateStart
    \/ runs < MaxRuns /\ GenerateStart
    \/ Deploy \/ Update \/ Generate
    \/ Return
SpecBatch == Init /\ [][NextBatch]_vars

\* deploy runs that create what they find (no --dry-run, no --generate-missing)
\* and update runs, in any order and number, each run to its end
NextDeployUpdate ==
    \/ \E a \in DeployArgs : ~a.dry_run /\ ~a.generate_missing /\ DeployBegin(a)
    \/ UpdateStart
    \/ DeploySkip
    \/ DeployCreateDataset
    \/ DeployRecordFailure
    \/ DeployCreateEndpoint
    \/ DeployPublish
    \/ DeployRecordSuccess
    \/ DeployFinish
    \/ Update
    \/ Return
SpecDeployUpdate == Init /\ [][NextDeployUpdate]_vars

\* deploy and delete runs in any order
NextDeployDelete == DeployStart \/ DeleteStart \/ Deploy \/ Delete \/ Kill \/ Return
SpecDeployDelete == Init /\ [][NextDeployDelete]_vars

\* a session of at most MaxRuns commands, each any of the four
Start == DeployStart \/ DeleteStart \/ PublishStart \/ UpdateStart
Next ==
    \/ runs < MaxRuns /\ Start
    \/ Deploy \/ Delete \/ Publish \/ Update
    \/ Kill
    \/ Return
Spec == Init /\ [][Next]_vars


(***************************************************************************)
(* Properties.                                                             *)
(***************************************************************************)
\* the local names a client call of this run was made for
CalledNames == {c[2] : c \in calls}
\* every considered dataset has its remote dataset and its remote endpoint
Converged ==
    \A k \in DOMAIN items :
        /\ dataset_name(items[k]) \in rDatasets
        /\ endpoint_slug(items[k]) \in rEndpoints

\* C1: when a non-dry-run deploy was killed between two steps and deploy
\* --resume then runs to completion against a remote that answers every
\* request properly, every considered dataset has a remote dataset and a
\* remote endpoint and no name that was in the persisted 'deployed' list at
\* the kill received a create call in the re-run.
C1_CrashResumeConverges ==
    (cmd = "deploy" /\ pc = "done" /\ prior.phase = "rerun" /\ faithful) =>
        /\ Converged
        /\ \A n \in prior.deployed :
              <<"create_dataset", n>> \notin calls /\ <<"create_endpoint", n>> \notin calls

\* C2: under --resume no client call is made for a name of the loaded
\* 'deployed' list, every such name met so far is counted as skipped, a skip
\* changes neither the progress record nor the file nor the remote, and
\* without --resume nothing is skipped.
C2_ResumeSkipsDeployed ==
    [][cmd' = "deploy" =>
         /\ args'.resume =>
              /\ loaded' \cap CalledNames' = {}
              /\ \A k \in 1..(idx' - 1) :
                    items'[k] \in loaded' => items'[k] \in skippedNames'
         /\ counts'.skipped = Cardinality(skippedNames')
         /\ ~args'.resume => counts'.skipped = 0
         /\ (cmd = "deploy" /\ counts'.skipped # counts.skipped) =>
              /\ items[idx] \in loaded
              /\ UNCHANGED <<progress, fileExists, fileContent, remote>>]_vars

C2_Witness ==
    /\ cmd = "deploy" /\ pc = "done" /\ args.resume /\ ~args.dry_run
    /\ skippedNames # {} /\ calls # {}

\* C3: within a deploy run a name is appended to 'deployed', and the record
\* saved, only in a non-dry-run iteration whose create_dataset and
\* create_endpoint both returned success for that name; an iteration in which
\* one of them returned failure appends the name to 'failed', saves, and
\* leaves 'deployed' as it was.
C3_DeployedOnlyAfterBothCreates ==
    [][(cmd = "deploy" /\ cmd' = "deploy" /\ Running) =>
         /\ progress'.deployed # progress.deployed =>
              /\ ~args.dry_run
              /\ iter.ds = "ok" /\ iter.ep = "ok"
              /\ <<"create_dataset", items[idx]>> \in calls
              /\ <<"create_endpoint", items[idx]>> \in calls
              /\ progress'.deployed = Append(progress.deployed, items[idx])
              /\ progress'.failed = progress.failed
              /\ fileExists' /\ fileContent' = progress'
         /\ (iter.ds = "failed" \/ iter.ep = "failed") =>
              /\ progress'.failed = Append(progress.failed, items[idx])
              /\ progress'.deployed = progress.deployed
              /\ fileExists' /\ fileContent' = progress']_vars

C3_Witness ==
    /\ cmd = "deploy" /\ pc = "done" /\ ~args.resume
    /\ progress.deployed # <<>> /\ progress.failed # <<>>
    /\ fileExists /\ fileContent = progress

\* C4: a deploy without --resume that starts when the remote holds the
\* dataset and the endpoint of every considered item changes neither the
\* remote dataset names nor the remote endpoint slugs and, the remote
\* answering properly, ends with every item counted as success, failed = 0
\* and return code 0.
C4_DeployIdempotent ==
    [][(cmd = "deploy" /\ Running /\ held /\ ~args.resume) =>
         /\ rDatasets' = rDatasets /\ rEndpoints' = rEndpoints
         /\ (pc' = "done" /\ faithful') =>
              /\ counts'.success = Len(items')
              /\ counts'.failed = 0 /\ counts'.skipped = 0
              /\ rc' = 0]_vars

C4_Witness ==
    /\ cmd = "deploy" /\ pc = "done" /\ held /\ ~args.resume /\ ~args.dry_run
    /\ faithful /\ rc = 0 /\ Len(items) = NumDatasets /\ counts.success = NumDatasets
    /\ Cardinality(calls) >= 2 * NumDatasets

\* C5: after a confirmed non-dry-run delete in which every request succeeded,
\* a following non-dry-run deploy --resume that returns 0 leaves every
\* considered dataset with a remote dataset and a remote endpoint.
C5_DeployAfterDeleteConverges ==
    (cmd = "deploy" /\ pc = "done" /\ prior.phase = "redeploy" /\ rc = 0) => Converged

\* C6: a step of a --dry-run command changes neither the remote nor the
\* progress file and issues only list, get and connection-check requests.
C6_DryRunChangesNothing ==
    [][((Running /\ args.dry_run) \/ (pc = "idle" /\ args'.dry_run)) =>
         /\ UNCHANGED <<remote, fileExists, fileContent>>
         /\ reqs' \subseteq {"list", "get", "check"}]_vars

C6_Witness ==
    /\ cmd = "delete" /\ pc = "done" /\ args.dry_run /\ "list" \in reqs
    /\ rDatasets # {} /\ rEndpoints # {} /\ fileExists

\* C7: a delete without --dry-run and --yes issues a request only when the
\* typed confirmation lower-cased is "yes"; on any other answer it has
\* returned 0 after its first step with no request issued and the remote and
\* the progress file as they were.
C7_DeleteNeedsConfirmation ==
    [][(cmd' = "delete" /\ ~args'.dry_run /\ ~args'.yes) =>
         /\ reqs' # {} => Lower(args'.confirm) = yes
         /\ Lower(args'.confirm) # yes =>
              /\ pc' = "done" /\ rc' = 0
              /\ reqs' = {} /\ calls' = {}
              /\ UNCHANGED <<remote, fileExists, fileContent>>]_vars

C7_Witness ==
    /\ cmd = "delete" /\ pc = "done" /\ ~args.dry_run /\ ~args.yes
    /\ args.confirm = <<"n","o">> /\ rc = 0
    /\ rDatasets # {} /\ rEndpoints # {}

\* C8: a non-dry-run deploy --publish that returns 0 has every considered
\* endpoint it did not skip published to the marketplace.
C8_PublishedWhenReturnsZero ==
    (cmd = "deploy" /\ pc = "done" /\ args.publish /\ ~args.dry_run /\ rc = 0) =>
        \A k \in DOMAIN items :
            items[k] \notin skippedNames => endpoint_slug(items[k]) \in rPublishedTo

\* C9: create_dataset returns (True, the created record) on 201; on 409 or a
\* body containing "already exists" in any case it fetches the dataset and
\* returns (True, the fetched record) when the GET is 200 and (False,
\* couldn't fetch) otherwise; on any other answer it returns (False,
\* message); it returns True only with the record of the named dataset.
C9_CreateDatasetResult ==
    call.method = "create_dataset" =>
        LET r == call.resp
            conflict == r.status = 409 \/ Contains(Lower(r.text), already_exists)
        IN  /\ r.status = 201 =>
                  call.ok /\ call.result = r.json /\ call.get = NoResponse
            /\ (r.status # 201 /\ conflict) =>
                  /\ call.get # NoResponse
                  /\ call.get.status = 200 => call.ok /\ call.result = call.get.json
                  /\ call.get.status # 200 => ~call.ok /\ call.result = CouldntFetch
            /\ (r.status # 201 /\ ~conflict) =>
                  /\ ~call.ok /\ call.result.kind = "error"
                  /\ call.result.status = r.status /\ call.get = NoResponse
            /\ call.ok => call.result.kind = "dataset" /\ call.result.name = call.name

C9_Witness ==
    /\ call.method = "create_dataset" /\ call.resp.status = 422
    /\ call.get.status = 200 /\ call.ok

\* C10: delete_dataset and delete_endpoint return True exactly on the
\* statuses 200, 204 and 404 and (False, message) on any other; a delete
\* right after a successful delete of the same resource finds it absent and
\* succeeds on the 404 it is answered.
C10_DeleteResult ==
    call.method \in {"delete_dataset", "delete_endpoint"} =>
        /\ call.ok <=> call.resp.status \in {200, 204, 404}
        /\ ~call.ok => call.result.kind = "error" /\ call.result.status = call.resp.status
        /\ (prevCall.method = call.method /\ prevCall.name = call.name /\ prevCall.ok) =>
              /\ ~call.present
              /\ call.resp.status = 404 => call.ok

C10_Witness ==
    /\ call.method = "delete_dataset" /\ prevCall.method = "delete_dataset"
    /\ prevCall.status = 204 /\ prevCall.ok
    /\ call.resp.status = 404 /\ call.ok

\* C11: in a delete run no delete_endpoint call is made once a delete_dataset
\* call has been made, so every delete_dataset call of a run that deletes
\* both kinds comes after its last delete_endpoint call.
C11_EndpointsDeletedFirst ==
    [][cmd' = "delete" =>
         ((\E c \in calls' \ calls : c[1] = "delete_endpoint") =>
              \A c \in calls : c[1] # "delete_dataset")]_vars

C11_Witness ==
    /\ cmd = "delete" /\ pc = "done" /\ ~args.dry_run
    /\ delete_endpoints(args) /\ delete_datasets(args)
    /\ \E c \in calls : c[1] = "delete_endpoint"
    /\ \E c \in calls : c[1] = "delete_dataset"

\* C12: a publish run whose listing succeeded considers exactly the first
\* `limit` (all when limit is 0), in listing order, of the listed endpoints
\* that are not both published and synced to a marketplace; it calls
\* publish_endpoint for exactly the considered endpoints it has got to, and
\* under --dry-run for none.
C12_PublishesUnpublishedWithinLimit ==
    [][cmd' = "publish" =>
         LET needing == {e \in rEndpoints : ~(e \in rPublished /\ e \in rPublishedTo)}
             place(e) == CHOOSE k \in DOMAIN AllEndpointSlugs : AllEndpointSlugs[k] = e
             published == {c[2] : c \in {d \in calls' : d[1] = "publish_endpoint"}}
         IN  /\ (pc = "idle" /\ rc' # 1) =>
                   /\ Contents(items') \subseteq needing
                   /\ Cardinality(Contents(items')) = Len(items')
                   /\ Len(items') =
                         IF args'.limit > 0 /\ args'.limit < Cardinality(needing)
                         THEN args'.limit ELSE Cardinality(needing)
                   /\ \A e \in needing \ Contents(items') :
                         \A t \in Contents(items') : place(t) < place(e)
             /\ published = IF args'.dry_run THEN {}
                            ELSE {items'[k] : k \in 1..(idx' - 1)}]_vars

\* a run limited to one endpoint that passes over a published endpoint listed
\* before the one it publishes
C12_Witness ==
    /\ cmd = "publish" /\ pc = "done" /\ ~args.dry_run /\ args.limit = 1
    /\ items = <<AllEndpointSlugs[2]>>
    /\ calls = {<<"publish_endpoint", AllEndpointSlugs[2]>>}
    /\ AllEndpointSlugs[1] \in rPublished \cap rPublishedTo

\* C13: when the .md file exists _resolve_description returns its content
\* without the surrounding blanks and neither looks the name up in the JSON
\* nor calls the generator; when the file is absent and the name is a key of
\* the JSON it returns the JSON value and does not call the generator; it
\* calls the generator only with generate_missing set and dry_run unset, and
\* returns the empty string when nothing of the three applies.
C13_DescriptionPriority ==
    resolved.applied =>
        LET i == resolved.in
            o == resolved.out
            blank(t) == \A k \in DOMAIN t : t[k] = " "
            stripped(t, v) ==
                /\ v = <<>> \/ (Head(v) # " " /\ v[Len(v)] # " ")
                /\ \E a \in 0..Len(t) : \E b \in a..Len(t) :
                      /\ v = SubSeq(t, a + 1, b)
                      /\ blank(SubSeq(t, 1, a)) /\ blank(SubSeq(t, b + 1, Len(t)))
        IN  /\ i.md_exists =>
                  stripped(i.md_text, o.value) /\ ~o.read_json /\ ~o.called /\ ~o.wrote
            /\ (~i.md_exists /\ i.in_json) => o.value = i.json_text /\ ~o.called
            /\ o.called => i.generate_missing /\ ~i.dry_run
            /\ (~i.md_exists /\ ~i.in_json /\ ~i.generate_missing) => o.value = <<>>

\* the three sources all at hand, and the .md file wins
C13_Witness ==
    /\ resolved.applied
    /\ resolved.in.md_exists /\ resolved.in.md_text = <<" ","m","d"," ">>
    /\ resolved.in.in_json /\ resolved.in.json_text = <<"j","s">>
    /\ resolved.in.generate_missing /\ ~resolved.in.dry_run /\ resolved.in.api_key
    /\ resolved.in.metadata /\ resolved.in.generated = <<"g","e","n">>
    /\ resolved.out.value = <<"m","d">>

\* C14: in a generate run under --resume no generate_one call is made for a
\* name that was a key of the output file at the start, and that name keeps
\* its description in the output file; in any run, whenever the loop is at
\* the top of an iteration or over, every description generated so far in
\* the run is in the output file.
C14_DescriptionsCached ==
    cmd = "generate" =>
        /\ args.resume =>
              \A n \in DOMAIN loaded :
                  /\ \A c \in calls : c[2] # n
                  /\ outExists /\ n \in DOMAIN outContent /\ outContent[n] = loaded[n]
        /\ pc \in {"generate_loop", "done"} =>
              \A c \in calls :
                  c[3] # <<>> =>
                      outExists /\ c[2] \in DOMAIN outContent /\ outContent[c[2]] = c[3]

\* a resumed run that skipped a cached name and generated another
C14_Witness ==
    /\ cmd = "generate" /\ pc = "done" /\ args.resume
    /\ DOMAIN loaded # {} /\ skippedNames # {}
    /\ \E c \in calls : c[3] # <<>> /\ c[2] \notin DOMAIN loaded
    /\ \E n \in DOMAIN loaded : \E c \in calls : c[3] # <<>> /\ c[3] # loaded[n]

\* C15: every endpoint that fix_endpoint_names.py deleted in an earlier run, whose
\* recreation failed (the slug is in progress 'failed') and which was missing from
\* the remote when a re-run began, is on the remote again once that re-run has
\* finished.
C15_DeletedEndpointsExistAgain ==
    (cmd = "fix" /\ pc = "done") => \A s \in fixLost : s \in rEndpoints

\* C16: slugify truncates to max_length: the slug it returns for any text and any
\* max_length >= 1 is at most max_length characters long.
C16_SlugWithinMaxLength ==
    slugified.applied => Len(slugified.slug) <= slugified.max_length

\* C17: the slug slugify returns is empty or kebab-case (lower-case alphanumerics
\* joined by single hyphens, no hyphen at either end), truncated or not.
C17_SlugIsKebabOrEmpty ==
    slugified.applied =>
        \/ slugified.slug = <<>>
        \/ /\ \A k \in DOMAIN slugified.slug :
                 slugified.slug[k] \in Range(LowerAlpha) \cup DigitChars \cup {"-"}
           /\ Head(slugified.slug) # "-"
           /\ slugified.slug[Len(slugified.slug)] # "-"
           /\ ~Contains(slugified.slug, <<"-", "-">>)

\* C18: cmd_deploy returns 0 exactly when the connection check passed, or was
\* skipped by --dry-run, and no item failed, and returns 1 otherwise; when
\* check_connection fails it returns 1 at once, with no create, get or publish
\* request made and the progress file and the remote left as they were.
C18_ReturnCode ==
    [][cmd' = "deploy" =>
         /\ connected' # "none"
         /\ (connected' = "skipped") <=> args'.dry_run
         /\ pc' = "done" =>
               /\ rc' \in {0, 1}
               /\ (rc' = 0) <=> (connected' \in {"ok", "skipped"} /\ counts'.failed = 0)
         /\ pc' # "done" => rc' = -1
         /\ connected' = "failed" =>
               /\ pc' = "done" /\ rc' = 1
               /\ reqs' \subseteq {"check"} /\ calls' = {}
               /\ UNCHANGED <<remote, file>>]_vars

\* a deploy whose connection check failed has returned 1 and the progress file of
\* an earlier run is still there
C18_Witness ==
    /\ cmd = "deploy" /\ pc = "done" /\ connected = "failed" /\ rc = 1
    /\ fileExists /\ fileContent.deployed # <<>> /\ fileContent.failed # <<>>

\* C19: in a non-dry-run deploy, create_endpoint is called for an item only after
\* its create_dataset returned success, publish_endpoint only after its
\* create_endpoint returned success and only with --publish, and create_dataset
\* comes before both.
C19_PerItemOrder ==
    [][cmd' = "deploy" =>
         \A c \in calls' \ calls :
           /\ ~args.dry_run
           /\ c[2] = items[idx]
           /\ c[1] = "create_dataset" =>
                 /\ <<"create_endpoint", c[2]>> \notin calls
                 /\ <<"publish_endpoint", c[2]>> \notin calls
           /\ c[1] = "create_endpoint" =>
                 /\ <<"create_dataset", c[2]>> \in calls /\ iter.ds = "ok"
                 /\ <<"publish_endpoint", c[2]>> \notin calls
           /\ c[1] = "publish_endpoint" =>
                 /\ <<"create_dataset", c[2]>> \in calls /\ iter.ds = "ok"
                 /\ <<"create_endpoint", c[2]>> \in calls /\ iter.ep = "ok"
                 /\ args.publish]_vars

\* a deploy --publish has finished one item whose create_dataset failed and
\* another that went through all three calls
C19_Witness ==
    /\ cmd = "deploy" /\ pc = "done" /\ args.publish
    /\ \E n \in Contents(items) :
         /\ <<"create_dataset", n>> \in calls
         /\ <<"create_endpoint", n>> \notin calls
    /\ \E n \in Contents(items) :
         /\ <<"create_dataset", n>> \in calls
         /\ <<"create_endpoint", n>> \in calls
         /\ <<"publish_endpoint", n>> \in calls

\* C20: in a deploy --resume, a name is skipped only when it is in 'deployed'; a
\* name that is in 'failed' and not in 'deployed' is processed again, in a
\* non-dry-run by issuing its create_dataset call; and no step of the run takes a
\* name out of the 'failed' list of the progress file.
C20_FailedRetried ==
    [][(cmd' = "deploy" /\ args'.resume) =>
         /\ \A n \in skippedNames' \ skippedNames : n \in Contents(progress.deployed)
         /\ (/\ pc = "loop" /\ idx <= Len(items)
             /\ items[idx] \in Contents(progress.failed)
             /\ items[idx] \notin Contents(progress.deployed)) =>
               /\ items[idx] \notin skippedNames'
               /\ ~args.dry_run =>
                     \/ pc' = "create_dataset"
                     \/ <<"create_dataset", items[idx]>> \in calls' \ calls
         /\ pc # "idle" =>
               /\ Contents(progress.failed) \subseteq Contents(progress'.failed)
               /\ fileExists =>
                     Contents(fileContent.failed) \subseteq Contents(fileContent'.failed)]_vars

\* a deploy --resume has deployed a name that an earlier run had recorded as
\* failed, and the name is in both lists of the progress file
C20_Witness ==
    /\ cmd = "deploy" /\ pc = "done" /\ args.resume /\ ~args.dry_run
    /\ \E n \in Contents(items) :
         /\ n \in Contents(fileContent.failed)
         /\ n \in Contents(fileContent.deployed)
         /\ n \notin loaded
         /\ <<"create_dataset", n>> \in calls

\* C21: in a non-dry-run deploy or update, once the run has changed its progress
\* record (an item succeeded or, in deploy, failed), the progress file exists and
\* equals the in-memory record at the start of every iteration and at the end of
\* the run.
C21_ProgressPersisted ==
    (/\ cmd \in {"deploy", "update"} /\ ~args.dry_run
     /\ pc \in {"loop", "update_loop", "done"}
     /\ IF cmd = "deploy" THEN counts.success + counts.failed > 0
        ELSE counts.success > 0)
    => (fileExists /\ fileContent = progress)

\* an update --resume has ended after recording a slug, next to the names an
\* earlier deploy had recorded
C21_Witness ==
    /\ cmd = "update" /\ pc = "done" /\ ~args.dry_run /\ args.resume
    /\ counts.success > 0
    /\ fileContent.updated # <<>> /\ fileContent.deployed # <<>>

\* C22: in deploy, update and generate every finished iteration has incremented
\* exactly one counter: the counters add up to the number of finished iterations,
\* and when the handler reaches its summary they add up to the number of
\* considered items, the limited list of datasets or of remote endpoints.
C22_CountsPartition ==
    (cmd \in {"deploy", "update", "generate"}) =>
        /\ counts.success + counts.skipped + counts.failed + counts.no_desc = idx - 1
        /\ cmd # "update" => counts.no_desc = 0
        /\ pc = "done" => idx - 1 = Len(items)
        /\ (cmd = "deploy" /\ pc = "done" /\ connected # "failed") =>
              idx - 1 = Len(Limited(discover_datasets, args.limit))
        /\ (cmd = "generate" /\ pc = "done" /\ (rc = 0 \/ counts.failed > 0)) =>
              idx - 1 = Len(Limited(discover_datasets, args.limit))
        /\ (cmd = "update" /\ pc = "done" /\ rc = 0) =>
              idx - 1 = Len(Limited(Listing(AllEndpointSlugs, rEndpoints), args.limit))

\* an update has reached its summary with one endpoint updated and another
\* without a description
C22_Witness ==
    /\ cmd = "update" /\ pc = "done" /\ rc = 0
    /\ counts.success > 0 /\ counts.no_desc > 0
    /\ counts.success + counts.no_desc = Len(items)

\* C23: a step of cmd_update appends the slug to 'updated', and saves, exactly
\* when it has called update_endpoint in a non-dry-run and the call returned
\* success, the remote having patched the endpoint; any other step leaves the
\* progress record and file as they were.
\* Under --resume a slug of 'updated' is skipped without a PATCH, and a slug
\* that is not in 'updated' is never skipped: with a description it is sent
\* its PATCH again.
C23_UpdatedIffSuccess ==
    [][(cmd = "update" /\ cmd' = "update") =>
         LET slug == items[idx]
             patched == <<"update_endpoint", slug>> \in calls' \ calls
             appended == progress'.updated # progress.updated
             recorded == args.resume /\ slug \in Contents(progress.updated)
         IN  /\ appended <=> (patched /\ ok' /\ ~args.dry_run)
             /\ appended =>
                   /\ progress' = [progress EXCEPT !.updated = Append(@, slug)]
                   /\ fileExists' /\ fileContent' = progress'
                   /\ slug \in rPatched'
             /\ ~appended => UNCHANGED <<progress, fileExists, fileContent>>
             /\ patched <=> (~recorded /\ slug \in descriptions /\ ~args.dry_run)
             /\ patched => "update" \in reqs'
             /\ ~patched => reqs' = reqs /\ rPatched' = rPatched
             /\ (slug \in skippedNames' \ skippedNames) <=> recorded]_vars

\* an update --resume has ended having skipped, without a PATCH, a slug that an
\* earlier run had recorded as updated, and having found another slug without
\* a description, which is in no list of the progress file
C23_Witness ==
    /\ cmd = "update" /\ pc = "done" /\ args.resume /\ ~args.dry_run
    /\ \E s \in skippedNames :
         /\ s \in Contents(fileContent.updated)
         /\ <<"update_endpoint", s>> \notin calls
    /\ counts.no_desc > 0
    /\ \E s \in Contents(items) :
         s \notin Contents(fileContent.updated) \cup Contents(fileContent.failed)

====
